---- MODULE Spec2Model ----
(***************************************************************************)
(* Model of the stereo-play session coordinator: the SessionManager        *)
(* (session store), the WebSocket dispatcher (handleMessage and the close  *)
(* handler) and the client's clock translation of play broadcasts.         *)
(*                                                                         *)
(* Time is in milliseconds.  JavaScript divides latencies by two in        *)
(* floating point; every field whose name ends in 2 holds twice the value  *)
(* (half-milliseconds), so that x/2 stays exact over the integers.         *)
(***************************************************************************)
EXTENDS Integers, Sequences, FiniteSets, TLC

(* ---------------- bounds of the model ---------------- *)
MaxConns == 4
MaxSessions == 2
MaxTracks == 1
MaxPending == 1
MaxTicks == 2
TickMs == 30000
StartTime == 1000
PlayConns == 2
PlayClients == 2
PlayTicks == 1
SyncTickMs == 20
SyncTicks == 1
SyncPings == 2
SyncPlays == 1
MaxNet == 2
RosterConns == 2
RosterClients == 3
IngestPending == 2
IngestTracks == 2
RestartClients == 3
RestartTracks == 2
MaxRestarts == 1
ChunkKiB == 250
MaxKiB == 750
TranscodeTickMs == 200
TranscodeTicks == 2
LibDirs == 3
EngineTicks == 2
SaveTracks == 2
SaveConns == 1
StaleTracks == 2
ResumeConns == 2
ResumePlays == 2
ResumeTicks == 2
ResumeTickMs == 1000

(* ---------------- program constants ---------------- *)
SweepDelayMs == 60000
PlayLeadMs == 500

Conns == 1..MaxConns
SessionIds == 1..MaxSessions
Tracks == 1..MaxTracks
NoTrack == 0

(* inputs of the handlers *)
PingDeltas == {-5, 20, 35, 120}
SeekTargets == {30}
\* a url as new URL(url) sees it: ok = it parses, host = its hostname
Urls == { [ok |-> TRUE, host |-> "youtube.com"],
          [ok |-> TRUE, host |-> "vimeo.com"],
          [ok |-> FALSE, host |-> ""] }
MoreUrls == Urls \cup { [ok |-> TRUE, host |-> "www.youtube.com"],
                        [ok |-> TRUE, host |-> "m.youtube.com"],
                        [ok |-> TRUE, host |-> "youtu.be"],
                        [ok |-> TRUE, host |-> "music.youtube.com"],
                        [ok |-> TRUE, host |-> "youtube.com.evil.example"] }

VARIABLES
  net,            \* per connection: server messages in flight to the client
  cli,            \* per connection: the browser's SyncManager and AudioManager
  playSeq,        \* history: number of play_requests handled
  now,            \* Date.now() of the server
  sessions,       \* SessionManager.sessions : Map sessionId -> Session
  persisted,      \* sessions.json : sessionId -> {createdAt, audioSource}
  audioDir,       \* the audio root: track id -> its directory
  nextClientId,   \* source of fresh nanoid(6) client ids
  nextTrack,      \* source of fresh nanoid(10) track ids
  conn,           \* per WebSocket: readyState and the closure variable ctx
  pending,        \* handler invocations suspended at an await
  timers,         \* pending setTimeout sweeps of removeClient
  sent,           \* messages written to sockets by the last step
  last,           \* the handler step that ran last
  lastDeparture,  \* history: time of the latest removeClient per session
  readyHandled,   \* history: clients whose ready was handled since the
                  \* last successful submit_link of their session
  hist            \* history: lastBound = the track most recently bound to
                  \* each session, boots = number of process restarts

svars == <<now, sessions, persisted, audioDir, nextClientId, nextTrack, conn,
           pending, timers, sent, last, lastDeparture, readyHandled, hist>>
cvars == <<net, cli, playSeq>>
vars == <<svars, cvars>>

(* ---------------- Map helpers ---------------- *)
MapSet(f, k, v) == [x \in (DOMAIN f) \cup {k} |-> IF x = k THEN v ELSE f[x]]
MapDel(f, k) == [x \in (DOMAIN f) \ {k} |-> f[x]]
EmptyMap == [x \in {} |-> 0]

NoCtx == [sessionId |-> 0, clientId |-> 0]

Max(a, b) == IF a >= b THEN a ELSE b

(* ---------------- messages ---------------- *)
\* One server message.  ws = socket written to, cid = the ClientInfo it was
\* sent for (0 when sent with send(ws, ..) to the requester), fan = sent by a
\* loop over the whole roster.  startTime also carries currentTime of pause
\* and targetTime of seek; ts2 is serverTimestamp in half-milliseconds; req
\* is history: the number of the play_request that caused a play message.
Msg(type, ws, cid, fan) ==
  [type |-> type, ws |-> ws, cid |-> cid, fan |-> fan,
   channel |-> "", track |-> NoTrack, startTime |-> 0, ts2 |-> 0,
   clientTimestamp |-> 0, clients |-> <<>>, tracks |-> <<>>, text |-> "",
   audioUrl |-> [track |-> NoTrack, file |-> ""], volume |-> 0, req |-> 0]

IsOpen(w) == conn[w].state = "open"

\* a dispatcher that holds a message back while any handler is suspended
ReceivesWhenIdle(w) == IsOpen(w) /\ pending = <<>>

\* ws.on('message', async ...): every message of an open connection is handed
\* to handleMessage when it arrives, whatever handlers are suspended
Receives(w) == IsOpen(w)

sendUnchecked(w, m) == <<m>>

\* send(ws, message): written only when readyState === 1
send(w, m) == IF IsOpen(w) THEN <<m>> ELSE <<>>

OpenClients(cs) == SelectSeq(cs, LAMBDA c : IsOpen(c.ws))

(* ---------------- SessionManager ---------------- *)
NewSession ==
  [createdAt |-> now, audioSource |-> NoTrack,
   playbackState |-> [isPlaying |-> FALSE, currentTime |-> 0,
                      lastSyncTimestamp |-> now],
   clients |-> <<>>]

getOrCreateSession(ss, s) == IF s \in DOMAIN ss THEN ss ELSE MapSet(ss, s, NewSession)

CountChannel(cs, ch) ==
  Cardinality({i \in 1..Len(cs) : cs[i].assignedChannel = ch})

assignChannelTiesRight(cs) ==
  LET leftCount == CountChannel(cs, "left")
      rightCount == CountChannel(cs, "right")
  IN  IF leftCount = 0 THEN "left"
      ELSE IF rightCount = 0 THEN "right"
      ELSE IF leftCount < rightCount THEN "left" ELSE "right"

assignChannel(cs) ==
  LET leftCount == CountChannel(cs, "left")
      rightCount == CountChannel(cs, "right")
  IN  IF leftCount = 0 THEN "left"
      ELSE IF rightCount = 0 THEN "right"
      ELSE IF leftCount <= rightCount THEN "left" ELSE "right"

getClientList(ss, s) ==
  IF s \notin DOMAIN ss THEN <<>>
  ELSE [i \in 1..Len(ss[s].clients) |->
          [id |-> ss[s].clients[i].id,
           channel |-> ss[s].clients[i].assignedChannel,
           ready |-> ss[s].clients[i].isReady]]

\* a fan-out that stops at the first roster entry whose socket is not open
RECURSIVE OpenPrefix(_)
OpenPrefix(cs) ==
  IF cs = <<>> \/ ~IsOpen(Head(cs).ws) THEN <<>>
  ELSE <<Head(cs)>> \o OpenPrefix(Tail(cs))

broadcastToSessionAbortOnClosed(ss, s, m) ==
  IF s \notin DOMAIN ss THEN <<>>
  ELSE LET oc == OpenPrefix(ss[s].clients)
       IN  [i \in 1..Len(oc) |-> [m EXCEPT !.ws = oc[i].ws, !.cid = oc[i].id]]

broadcastToSessionFirstOnly(ss, s, m) ==
  IF s \notin DOMAIN ss THEN <<>>
  ELSE LET oc == OpenClients(ss[s].clients)
       IN  [i \in 1..(IF Len(oc) > 0 THEN 1 ELSE 0) |->
              [m EXCEPT !.ws = oc[i].ws, !.cid = oc[i].id]]

\* broadcastToSession(sessionId, message): one copy per roster entry whose
\* socket is open, in roster order; m is the message without addressee.
broadcastToSession(ss, s, m) ==
  IF s \notin DOMAIN ss THEN <<>>
  ELSE LET oc == OpenClients(ss[s].clients)
       IN  [i \in 1..Len(oc) |-> [m EXCEPT !.ws = oc[i].ws, !.cid = oc[i].id]]

ClientListMsg(ss, s) ==
  [Msg("client_list", 0, 0, TRUE) EXCEPT !.clients = getClientList(ss, s)]

\* saveState(): merge every in-memory session with an audioSource into the
\* document on disk
\* a writer that starts from an empty document instead of the file's contents
saveStateNoMerge(doc, ss) ==
  [x \in {y \in DOMAIN ss : ss[y].audioSource # NoTrack} |->
     [createdAt |-> ss[x].createdAt, audioSource |-> ss[x].audioSource]]

saveState(doc, ss) ==
  [x \in (DOMAIN doc) \cup {y \in DOMAIN ss : ss[y].audioSource # NoTrack} |->
     IF x \in DOMAIN ss /\ ss[x].audioSource # NoTrack
     THEN [createdAt |-> ss[x].createdAt, audioSource |-> ss[x].audioSource]
     ELSE doc[x]]

loadStateEmpty(doc) == EmptyMap

\* loadState(): every persisted session that has an audioSource is restored
\* with a fresh playbackState and no clients
loadState(doc) ==
  [x \in {y \in DOMAIN doc : doc[y].audioSource # NoTrack} |->
     [createdAt |-> doc[x].createdAt, audioSource |-> doc[x].audioSource,
      playbackState |-> [isPlaying |-> FALSE, currentTime |-> 0,
                         lastSyncTimestamp |-> now],
      clients |-> <<>>]]

setAudioSourceKeepPlayback(ss, s, t) ==
  IF s \notin DOMAIN ss THEN ss ELSE [ss EXCEPT ![s].audioSource = t]

\* setAudioSource(sessionId, audioSource) without the trailing saveState()
setAudioSource(ss, s, t) ==
  IF s \notin DOMAIN ss THEN ss
  ELSE [ss EXCEPT ![s].audioSource = t,
                  ![s].playbackState = [isPlaying |-> FALSE, currentTime |-> 0,
                                        lastSyncTimestamp |-> now]]

updatePlaybackStateStale(ss, s, playing, time) == ss

updatePlaybackState(ss, s, playing, time) ==
  IF s \notin DOMAIN ss THEN ss
  ELSE [ss EXCEPT ![s].playbackState = [isPlaying |-> playing,
                                        currentTime |-> time,
                                        lastSyncTimestamp |-> now]]

areAllClientsReady(ss, s) ==
  IF s \notin DOMAIN ss \/ Len(ss[s].clients) = 0 THEN FALSE
  ELSE \A i \in 1..Len(ss[s].clients) : ss[s].clients[i].isReady

RosterIds(ss, s) ==
  IF s \notin DOMAIN ss THEN {}
  ELSE {ss[s].clients[i].id : i \in 1..Len(ss[s].clients)}

(* ---------------- AudioProcessor ---------------- *)
\* a track directory right after fs.mkdir: no metadata.json, no output yet;
\* left and right are the sizes of left.mp3 and right.mp3 in KiB, mtime the
\* time of the last write to them, ffmpeg the state of the transcoder
\* writing them
NewDir ==
  [metadata |-> "none", createdAt |-> 0, left |-> 0, right |-> 0,
   mtime |-> 0, ffmpeg |-> "none"]

RECURSIVE readdir(_)
\* fs.readdir(audioDir): the entries in name order
readdir(ids) ==
  IF ids = {} THEN <<>>
  ELSE LET m == CHOOSE x \in ids : \A y \in ids : x <= y
       IN  <<m>> \o readdir(ids \ {m})

RECURSIVE SortByCreatedAt(_)
\* tracks.sort((a, b) => b.createdAt - a.createdAt), a stable sort
SortByCreatedAt(q) ==
  IF Len(q) <= 1 THEN q
  ELSE LET rest == SortByCreatedAt(Tail(q))
           before == SelectSeq(rest, LAMBDA x : x.createdAt > Head(q).createdAt)
           after == SelectSeq(rest, LAMBDA x : x.createdAt <= Head(q).createdAt)
       IN  before \o <<Head(q)>> \o after

listAllAudioUnsorted(dir) ==
  LET names == readdir(DOMAIN dir)
      parsed == SelectSeq(names, LAMBDA t : dir[t].metadata = "ok")
  IN  [i \in 1..Len(parsed) |->
         [id |-> parsed[i], createdAt |-> dir[parsed[i]].createdAt]]

\* an enumeration that lists every directory, metadata.json or not
listAllAudioAnyDir(dir) ==
  LET names == readdir(DOMAIN dir)
  IN  SortByCreatedAt([i \in 1..Len(names) |->
                         [id |-> names[i], createdAt |-> dir[names[i]].createdAt]])

\* listAllAudio(): the metadata of every directory whose metadata.json is
\* read and parsed, newest first
listAllAudio(dir) ==
  LET names == readdir(DOMAIN dir)
      parsed == SelectSeq(names, LAMBDA t : dir[t].metadata = "ok")
  IN  SortByCreatedAt([i \in 1..Len(parsed) |->
                         [id |-> parsed[i], createdAt |-> dir[parsed[i]].createdAt]])

\* tracks.map(t => ({id, title, duration})) of a track_list message
TrackIds(tracks) == [i \in 1..Len(tracks) |-> tracks[i].id]

HasTrackAlways(tracks, trackId) == TRUE

\* tracks.find(t => t.id === trackId) finds a track
HasTrack(tracks, trackId) == \E i \in 1..Len(tracks) : tracks[i].id = trackId

(* ---------------- handlers.ts helpers ---------------- *)
isYouTubeUrlAnyParsed(u) == u.ok

isYouTubeUrl(u) ==
  u.ok /\ u.host \in {"youtube.com", "www.youtube.com", "youtu.be", "m.youtube.com"}

\* the empty string as a url; a url /audio/<track>/<file> is the pair of its
\* track and its file
EmptyUrl == [track |-> NoTrack, file |-> ""]

\* result.files of processYouTubeUrl, as metadata.json and the session's
\* audioSource keep them: no separate stereo file is written
Files(t) ==
  [stereo |-> [track |-> t, file |-> "left.mp3"],
   left |-> [track |-> t, file |-> "left.mp3"],
   right |-> [track |-> t, file |-> "right.mp3"]]

getAudioUrlAlwaysStereo(audioSource, channel) == Files(audioSource).stereo

\* getAudioUrlForChannel(session, channel)
getAudioUrlForChannel(audioSource, channel) ==
  IF audioSource = NoTrack THEN EmptyUrl
  ELSE IF channel = "left" THEN Files(audioSource).left
  ELSE IF channel = "right" THEN Files(audioSource).right
  ELSE Files(audioSource).stereo

AudioReadyMsgAsPlay(ss, s, c, fan) ==
  [Msg("play", c.ws, c.id, fan) EXCEPT !.track = ss[s].audioSource]

AudioReadyMsg(ss, s, c, fan) ==
  [Msg("audio_ready", c.ws, c.id, fan) EXCEPT
     !.track = ss[s].audioSource,
     !.audioUrl = getAudioUrlForChannel(ss[s].audioSource, c.assignedChannel)]

adjustedTime2FullLatency(T, latency) == 2 * (T + PlayLeadMs) - 2 * latency

\* serverTimestamp of the play message of one client, in half-milliseconds
adjustedTime2(T, latency) == 2 * (T + PlayLeadMs) - latency

\* the handler step recorded in last: ok = it passed its early returns
Op(name, w, s, ok) ==
  [op |-> name, ws |-> w, sessionId |-> s, ok |-> ok, track |-> NoTrack,
   url |-> [ok |-> FALSE, host |-> ""], channel |-> "", volume |-> 0,
   prevTime |-> 0]

Pend(kind, w, s, t) == [kind |-> kind, ws |-> w, sessionId |-> s, track |-> t]

RemoveAt(q, i) == [j \in 1..(Len(q) - 1) |-> IF j < i THEN q[j] ELSE q[j + 1]]

resetReadyKeep(cs) == cs

\* the loop "client.isReady = false" of submit_link and load_track
resetReady(cs) == [i \in 1..Len(cs) |-> [cs[i] EXCEPT !.isReady = FALSE]]

SetClient(ss, s, cid, field, v) ==
  IF s \notin DOMAIN ss THEN ss
  ELSE [ss EXCEPT ![s].clients =
          [i \in 1..Len(@) |-> IF @[i].id = cid THEN [@[i] EXCEPT ![field] = v] ELSE @[i]]]

setClientReady(ss, s, cid, ready) == SetClient(ss, s, cid, "isReady", ready)
setClientLatencyAll(ss, s, cid, latency) ==
  IF s \notin DOMAIN ss THEN ss
  ELSE [ss EXCEPT ![s].clients = [i \in 1..Len(@) |-> [@[i] EXCEPT !.latency = latency]]]

setClientLatency(ss, s, cid, latency) == SetClient(ss, s, cid, "latency", latency)

(* ---------------- browser client ---------------- *)
\* serverTime - localTime of each device's clock
TrueOffset == [w \in Conns |-> IF w = 2 THEN 40 ELSE 0]
LocalNow(w) == now - TrueOffset[w]
\* audioContext.currentTime in milliseconds: the audio backend's clock
\* counts from the creation of the device's AudioContext
CtxCreated == [w \in Conns |-> 300 * w]
CtxNow(w) == LocalNow(w) - CtxCreated[w]

\* new SyncManager(), new AudioManager(), statusMachine = null; scheduled2
\* and offsetUsed2 record the last playAt call: its scheduledTime and the
\* clockOffset it was translated with (half-milliseconds), playReq the
\* play_request it answers.  status is "none" while there is no
\* StatusMachine and "null" in the machine's initial state.
NewClient ==
  [clockOffset2 |-> 0, latencySamples |-> <<>>, audioBuffer |-> FALSE,
   isPlaying |-> FALSE, fromTime |-> 0, scheduled2 |-> 0, offsetUsed2 |-> 0,
   playReq |-> 0, status |-> "none",
   display |-> [state |-> "none", label |-> ""],
   when2 |-> 0, startTime2 |-> 0, pauseTime2 |-> 0,
   loaded |-> NoTrack, readyOut |-> <<>>, clientList |-> <<>>]

transitionsPlayBeforeReady ==
  [null |-> [LOAD |-> "loading"],
   loading |-> [AUTO_READY |-> "ready", ERROR |-> "null", LOAD |-> "loading",
                PLAY |-> "playing"],
   ready |-> [PLAY |-> "playing", LOAD |-> "loading"],
   playing |-> [PAUSE |-> "paused", LOAD |-> "loading"],
   paused |-> [PLAY |-> "playing", LOAD |-> "loading"]]

\* StatusMachine.transitions; the state null is written "null"
transitions ==
  [null |-> [LOAD |-> "loading"],
   loading |-> [AUTO_READY |-> "ready", ERROR |-> "null", LOAD |-> "loading"],
   ready |-> [PLAY |-> "playing", LOAD |-> "loading"],
   playing |-> [PAUSE |-> "paused", LOAD |-> "loading"],
   paused |-> [PLAY |-> "playing", LOAD |-> "loading"]]

\* StatusMachine.labels and getLabel
labels ==
  [loading |-> "Loading", ready |-> "Ready", playing |-> "Playing",
   paused |-> "Paused"]
getLabel(state) == IF state \in DOMAIN labels THEN labels[state] ELSE ""

\* StatusMachine.send(event) returns true
StatusAccepts(state, event) ==
  /\ state \in DOMAIN transitions
  /\ event \in DOMAIN transitions[state]

\* StatusMachine.send(event): the state after the event; an event without a
\* transition from the current state leaves it alone
StatusSend(state, event) ==
  IF StatusAccepts(state, event) THEN transitions[state][event] ELSE state

\* notify() of an accepted send: what updateStatusDisplay is called with,
\* and so what the status element shows after the send
StatusDisplay(c, event) ==
  IF StatusAccepts(c.status, event)
  THEN [state |-> StatusSend(c.status, event),
        label |-> getLabel(StatusSend(c.status, event))]
  ELSE c.display

SortByOffsetNot(q) == q

RECURSIVE SortByOffset(_)
\* [...samples].sort((a, b) => a.offset - b.offset), a stable sort
SortByOffset(q) ==
  IF Len(q) <= 1 THEN q
  ELSE LET rest == SortByOffset(Tail(q))
           before == SelectSeq(rest, LAMBDA x : x.offset2 < Head(q).offset2)
           after == SelectSeq(rest, LAMBDA x : x.offset2 >= Head(q).offset2)
       IN  before \o <<Head(q)>> \o after

\* SyncManager.handlePong at local time localNow
handlePong(c, serverTimestamp, clientTimestamp, localNow) ==
  LET rtt == localNow - clientTimestamp
      sample == [latency2 |-> rtt,
                 offset2 |-> 2 * (serverTimestamp - clientTimestamp) - rtt]
      pushed == Append(c.latencySamples, sample)
      kept == IF Len(pushed) > 5 THEN Tail(pushed) ELSE pushed
      sorted == SortByOffset(kept)
  IN  [c EXCEPT !.latencySamples = kept,
                !.clockOffset2 = sorted[(Len(sorted) \div 2) + 1].offset2]

\* SyncManager.serverTimeToLocal, in half-milliseconds
serverTimeToLocal2(serverTime2, clockOffset2) == serverTime2 - clockOffset2

playAtNoClamp(c, fromTime, scheduledTime2, localNow, ctxNow) ==
  IF ~c.audioBuffer THEN c
  ELSE [c EXCEPT !.isPlaying = TRUE, !.fromTime = fromTime,
                 !.when2 = 2 * ctxNow + (scheduledTime2 - 2 * localNow),
                 !.startTime2 = 2 * ctxNow + (scheduledTime2 - 2 * localNow)
                                  - 2000 * fromTime]

\* AudioManager.playAt(fromTime, scheduledTime) at Date.now() = localNow and
\* audioContext.currentTime = ctxNow (ms); fromTime is in seconds, when2 and
\* startTime2 are when and this.startTime in half-milliseconds
playAt(c, fromTime, scheduledTime2, localNow, ctxNow) ==
  IF ~c.audioBuffer THEN c
  ELSE LET delay2 == Max(0, scheduledTime2 - 2 * localNow)
           when2 == 2 * ctxNow + delay2
       IN  [c EXCEPT !.isPlaying = TRUE, !.fromTime = fromTime,
                     !.when2 = when2,
                     !.startTime2 = when2 - 2000 * fromTime]

\* AudioManager.getCurrentTime(), in half-milliseconds
getCurrentTime2(c, ctxNow) ==
  IF ~c.isPlaying THEN c.pauseTime2 ELSE 2 * ctxNow - c.startTime2

\* AudioManager.pause()
pause(c, ctxNow) ==
  IF ~c.isPlaying THEN c
  ELSE [c EXCEPT !.pauseTime2 = getCurrentTime2(c, ctxNow), !.isPlaying = FALSE]

\* wsClient.on('play'): playAt(msg.startTime, serverTimeToLocal(..)) unless
\* no audio buffer is loaded
OnPlay(c, m, localNow, ctxNow) ==
  IF ~c.audioBuffer THEN c
  ELSE [playAt(c, m.startTime, serverTimeToLocal2(m.ts2, c.clockOffset2),
               localNow, ctxNow)
          EXCEPT !.scheduled2 = serverTimeToLocal2(m.ts2, c.clockOffset2),
                 !.offsetUsed2 = c.clockOffset2,
                 !.playReq = m.req,
                 !.status = StatusSend(@, "PLAY"),
                 !.display = StatusDisplay(c, "PLAY")]

\* the handlers of setupWebSocketHandlers for the other server messages;
\* loaded = loadAudio of an audio_ready decoded the buffer (it throws
\* otherwise)
OnMessage(c, m, loaded, ctxNow) ==
  IF m.type = "session_joined" THEN [c EXCEPT !.status = "null"]
  ELSE IF m.type = "audio_loading"
  THEN [c EXCEPT !.status = StatusSend(@, "LOAD"),
                 !.display = StatusDisplay(c, "LOAD")]
  ELSE IF m.type = "audio_ready"
  THEN [c EXCEPT !.audioBuffer = @ \/ loaded,
                 !.pauseTime2 = IF loaded THEN 0 ELSE @,
                 !.loaded = IF loaded THEN m.audioUrl.track ELSE @,
                 !.readyOut = IF loaded THEN Append(@, m.audioUrl.track) ELSE @,
                 !.status = StatusSend(@, "AUTO_READY"),
                 !.display = StatusDisplay(c, "AUTO_READY")]
  ELSE IF m.type = "pause"
  THEN [pause(c, ctxNow) EXCEPT !.status = StatusSend(@, "PAUSE"),
                              !.display = StatusDisplay(c, "PAUSE")]
  ELSE IF m.type = "error"
  THEN [c EXCEPT !.status = StatusSend(@, "ERROR"),
                 !.display = StatusDisplay(c, "ERROR")]
  ELSE IF m.type = "client_list"
  THEN [c EXCEPT !.clientList = m.clients]
  ELSE c

\* the client handles the oldest message in flight to it
ClientRecv(w, loaded) ==
  /\ Len(net[w]) > 0
  /\ net' = [net EXCEPT ![w] = Tail(@)]
  /\ LET m == Head(net[w])
     IN  cli' = [cli EXCEPT ![w] =
                   IF m.type = "pong"
                   THEN handlePong(@, m.ts2 \div 2, m.clientTimestamp, LocalNow(w))
                   ELSE IF m.type = "play"
                   THEN OnPlay(@, m, LocalNow(w), CtxNow(w))
                   ELSE OnMessage(@, m, loaded, CtxNow(w))]
  /\ UNCHANGED <<svars, playSeq>>

\* wsClient.on('pong') for a ping that took up ms to reach the server and
\* whose pong took down ms to come back
PongArrives(w, up, down) ==
  /\ cli' = [cli EXCEPT ![w] =
               handlePong(@, now - down, LocalNow(w) - up - down, LocalNow(w))]
  /\ UNCHANGED <<svars, net, playSeq>>

\* audioManager.loadAudio(url) resolved: the buffer is decoded
EngineLoad(w) ==
  /\ cli' = [cli EXCEPT ![w].audioBuffer = TRUE, ![w].pauseTime2 = 0]
  /\ UNCHANGED <<svars, net, playSeq>>

\* audioManager.playAt(fromTime, scheduledTime), scheduledTime lying ahead2
\* half-milliseconds after the device's Date.now()
EnginePlayAt(w, fromTime, ahead2) ==
  /\ cli' = [cli EXCEPT ![w] =
               [playAt(@, fromTime, 2 * LocalNow(w) + ahead2, LocalNow(w), CtxNow(w))
                  EXCEPT !.scheduled2 = 2 * LocalNow(w) + ahead2]]
  /\ UNCHANGED <<svars, net, playSeq>>

\* audioManager.pause()
EnginePause(w) ==
  /\ cli' = [cli EXCEPT ![w] = pause(@, CtxNow(w))]
  /\ UNCHANGED <<svars, net, playSeq>>

\* the messages of the step reach the sockets' queues
Deliver ==
  net' = [w \in Conns |->
            net[w] \o SelectSeq([i \in 1..Len(sent') |->
                                   IF sent'[i].type = "play"
                                   THEN [sent'[i] EXCEPT !.req = playSeq']
                                   ELSE sent'[i]],
                                LAMBDA m : m.ws = w)]

(* ---------------- initial state ---------------- *)
\* after construction with no sessions.json on disk and an empty audio root
Init ==
  /\ now = StartTime
  /\ sessions = EmptyMap
  /\ persisted = EmptyMap
  /\ audioDir = EmptyMap
  /\ nextClientId = 1
  /\ nextTrack = 1
  /\ conn = [w \in Conns |-> [state |-> "open", ctx |-> NoCtx]]
  /\ pending = <<>>
  /\ timers = {}
  /\ sent = <<>>
  /\ last = Op("init", 0, 0, TRUE)
  /\ lastDeparture = [s \in SessionIds |-> -1]
  /\ readyHandled = {}
  /\ hist = [lastBound |-> [s \in SessionIds |-> NoTrack], boots |-> 0]
  /\ net = [w \in Conns |-> <<>>]
  /\ cli = [w \in Conns |-> NewClient]
  /\ playSeq = 0

\* a handler that returned at "if (!ctx) return" or a later early return
Dropped(name, w) ==
  /\ sent' = <<>>
  /\ last' = Op(name, 0, 0, FALSE)
  /\ UNCHANGED <<now, sessions, persisted, audioDir, nextClientId, nextTrack,
                 conn, pending, timers, lastDeparture, readyHandled, hist>>

(* ---------------- join_session ---------------- *)
\* case 'join_session' up to "await audioProcessor.listAllAudio()"
JoinStart(w, s) ==
  /\ Receives(w)
  /\ LET ss1 == getOrCreateSession(sessions, s)
         client == [id |-> nextClientId, ws |-> w,
                    assignedChannel |-> assignChannel(ss1[s].clients),
                    latency |-> 0, isReady |-> FALSE]
         ss2 == [ss1 EXCEPT ![s].clients = Append(@, client)]
     IN  /\ sessions' = ss2
         /\ sent' = send(w, [Msg("session_joined", w, client.id, FALSE)
                               EXCEPT !.channel = client.assignedChannel])
                    \o (IF ss2[s].audioSource # NoTrack
                        THEN send(w, AudioReadyMsg(ss2, s, client, FALSE))
                        ELSE <<>>)
  /\ conn' = [conn EXCEPT ![w].ctx = [sessionId |-> s, clientId |-> nextClientId]]
  /\ nextClientId' = nextClientId + 1
  /\ pending' = Append(pending, Pend("join", w, s, NoTrack))
  /\ last' = Op("join_session", w, s, TRUE)
  /\ UNCHANGED <<now, persisted, audioDir, nextTrack, timers, lastDeparture,
                 readyHandled, hist>>

\* case 'join_session' after the await: track_list, then the client_list
\* broadcast
JoinFinish(i) ==
  /\ i \in 1..Len(pending)
  /\ pending[i].kind = "join"
  /\ LET p == pending[i]
     IN  /\ sent' = send(p.ws, [Msg("track_list", p.ws, 0, FALSE) EXCEPT
                                    !.tracks = TrackIds(listAllAudio(audioDir))])
                    \o broadcastToSession(sessions, p.sessionId,
                                          ClientListMsg(sessions, p.sessionId))
         /\ last' = Op("join_finish", p.ws, p.sessionId, TRUE)
  /\ pending' = RemoveAt(pending, i)
  /\ UNCHANGED <<now, sessions, persisted, audioDir, nextClientId, nextTrack,
                 conn, timers, lastDeparture, readyHandled, hist>>

(* ---------------- ready ---------------- *)
Ready(w) ==
  /\ Receives(w)
  /\ IF conn[w].ctx = NoCtx THEN Dropped("ready", w)
     ELSE LET s == conn[w].ctx.sessionId
              cid == conn[w].ctx.clientId
              ss == setClientReady(sessions, s, cid, TRUE)
          IN  /\ sessions' = ss
              /\ sent' = broadcastToSession(ss, s, ClientListMsg(ss, s))
              /\ last' = Op("ready", 0, s, TRUE)
              /\ readyHandled' = IF cid \in RosterIds(sessions, s)
                                 THEN readyHandled \cup {cid} ELSE readyHandled
              /\ UNCHANGED <<now, persisted, audioDir, nextClientId, nextTrack,
                             conn, pending, timers, lastDeparture, hist>>

(* ---------------- play / pause / seek ---------------- *)
PlayMsg(c, startTime, T) ==
  [Msg("play", c.ws, c.id, TRUE) EXCEPT
     !.startTime = startTime, !.ts2 = adjustedTime2(T, c.latency)]

HasAudioAlways(ss, s) == TRUE

\* "if (!session?.audioSource) return;" of case 'play_request'
HasAudio(ss, s) == ss[s].audioSource # NoTrack

PlayRequest(w) ==
  /\ Receives(w)
  /\ LET s == conn[w].ctx.sessionId
     IN  IF conn[w].ctx = NoCtx \/ s \notin DOMAIN sessions
         THEN Dropped("play_request", w)
         ELSE IF ~HasAudio(sessions, s)
         THEN Dropped("play_request", w)
         ELSE LET ss == updatePlaybackState(sessions, s, TRUE,
                                            sessions[s].playbackState.currentTime)
                  oc == OpenClients(ss[s].clients)
              IN  /\ sessions' = ss
                  /\ sent' = [i \in 1..Len(oc) |->
                                PlayMsg(oc[i], ss[s].playbackState.currentTime, now)]
                  /\ last' = Op("play_request", 0, s, TRUE)
                  /\ UNCHANGED <<now, persisted, audioDir, nextClientId,
                                 nextTrack, conn, pending, timers,
                                 lastDeparture, readyHandled, hist>>

PauseRequest(w) ==
  /\ Receives(w)
  /\ LET s == conn[w].ctx.sessionId
     IN  IF conn[w].ctx = NoCtx \/ s \notin DOMAIN sessions
         THEN Dropped("pause_request", w)
         ELSE LET ss == updatePlaybackState(sessions, s, FALSE,
                                            sessions[s].playbackState.currentTime)
              IN  /\ sessions' = ss
                  /\ sent' = broadcastToSession(ss, s,
                                [Msg("pause", 0, 0, TRUE) EXCEPT
                                   !.startTime = ss[s].playbackState.currentTime,
                                   !.ts2 = 2 * now])
                  /\ last' = Op("pause_request", 0, s, TRUE)
                  /\ UNCHANGED <<now, persisted, audioDir, nextClientId,
                                 nextTrack, conn, pending, timers,
                                 lastDeparture, readyHandled, hist>>

SeekRequest(w, targetTime) ==
  /\ Receives(w)
  /\ IF conn[w].ctx = NoCtx THEN Dropped("seek_request", w)
     ELSE LET s == conn[w].ctx.sessionId
              ss == IF s \in DOMAIN sessions
                    THEN updatePlaybackState(sessions, s,
                           sessions[s].playbackState.isPlaying, targetTime)
                    ELSE sessions
          IN  /\ sessions' = ss
              /\ sent' = broadcastToSession(ss, s,
                            [Msg("seek", 0, 0, TRUE) EXCEPT
                               !.startTime = targetTime, !.ts2 = 2 * now])
              /\ last' = Op("seek_request", 0, s, TRUE)
              /\ UNCHANGED <<now, persisted, audioDir, nextClientId, nextTrack,
                             conn, pending, timers, lastDeparture, readyHandled, hist>>

(* ---------------- ping ---------------- *)
Ping(w, clientTimestamp) ==
  /\ Receives(w)
  /\ IF conn[w].ctx = NoCtx THEN Dropped("ping", w)
     ELSE LET s == conn[w].ctx.sessionId
              latency == now - clientTimestamp
          IN  /\ sessions' = setClientLatency(sessions, s, conn[w].ctx.clientId,
                                              Max(0, latency))
              /\ sent' = send(w, [Msg("pong", w, 0, FALSE) EXCEPT
                                    !.ts2 = 2 * now, !.clientTimestamp = clientTimestamp])
              /\ last' = Op("ping", 0, s, TRUE)
              /\ UNCHANGED <<now, persisted, audioDir, nextClientId, nextTrack,
                             conn, pending, timers, lastDeparture, readyHandled, hist>>

(* ---------------- volume_request ---------------- *)
\* a message whose type has no case in the switch of handleMessage, as
\* volume_request{channel, volume}: the handler returns without any effect
VolumeRequest(w, channel, volume) ==
  /\ Receives(w)
  /\ sent' = <<>>
  /\ last' = [Op("volume_request", w, conn[w].ctx.sessionId, conn[w].ctx # NoCtx)
                EXCEPT !.channel = channel, !.volume = volume]
  /\ UNCHANGED <<now, sessions, persisted, audioDir, nextClientId, nextTrack,
                 conn, pending, timers, lastDeparture, readyHandled, hist>>

(* ---------------- submit_link ---------------- *)
ErrorMsg(w, text) == [Msg("error", w, 0, FALSE) EXCEPT !.text = text]

\* case 'submit_link' up to the first await inside processYouTubeUrl: the
\* url is checked, audio_loading is broadcast, the track id is drawn and its
\* directory made
SubmitStart(w, url) ==
  /\ Receives(w)
  /\ IF conn[w].ctx = NoCtx THEN Dropped("submit_link", w)
     ELSE IF ~isYouTubeUrl(url)
     THEN /\ sent' = send(w, ErrorMsg(w, "Only YouTube URLs are supported"))
          /\ last' = [Op("submit_link", w, conn[w].ctx.sessionId, FALSE)
                        EXCEPT !.url = url]
          /\ UNCHANGED <<now, sessions, persisted, audioDir, nextClientId,
                         nextTrack, conn, pending, timers, lastDeparture,
                         readyHandled, hist>>
     ELSE LET s == conn[w].ctx.sessionId
          IN  /\ sent' = broadcastToSession(sessions, s, Msg("audio_loading", 0, 0, TRUE))
              /\ pending' = Append(pending, Pend("submit", w, s, nextTrack))
              /\ audioDir' = MapSet(audioDir, nextTrack, NewDir)
              /\ nextTrack' = nextTrack + 1
              /\ last' = [Op("submit_link", w, s, TRUE) EXCEPT !.url = url]
              /\ UNCHANGED <<now, sessions, persisted, nextClientId, conn,
                             timers, lastDeparture, readyHandled, hist>>

\* setAudioSource and the loop that resets isReady and sends audio_ready;
\* the state is saved by setAudioSource before the loop runs
\* session.playbackState.currentTime as a handler finds it (0 without session)
TimeOf(s) ==
  IF s \in DOMAIN sessions THEN sessions[s].playbackState.currentTime ELSE 0

BindTrack(s, t) ==
  LET ss1 == setAudioSource(sessions, s, t)
      ss2 == IF s \in DOMAIN ss1
             THEN [ss1 EXCEPT ![s].clients = resetReady(@)] ELSE ss1
  IN  /\ sessions' = ss2
      /\ persisted' = IF s \in DOMAIN ss1 THEN saveState(persisted, ss1)
                      ELSE persisted
      /\ sent' = IF s \in DOMAIN ss2
                 THEN LET oc == OpenClients(ss2[s].clients)
                      IN  [i \in 1..Len(oc) |-> AudioReadyMsg(ss2, s, oc[i], TRUE)]
                 ELSE <<>>
      /\ hist' = IF s \in DOMAIN ss1
                 THEN [hist EXCEPT !.lastBound[s] = t] ELSE hist

\* processYouTubeUrl: getYouTubeTitle and getStreamUrl have resolved and
\* processStreamToChannels has spawned ffmpeg; the handler stays suspended
GetStreamUrl(i) ==
  /\ i \in 1..Len(pending)
  /\ pending[i].kind = "submit"
  /\ pending' = [pending EXCEPT ![i].kind = "transcode"]
  /\ audioDir' = [audioDir EXCEPT ![pending[i].track].ffmpeg = "running"]
  /\ sent' = <<>>
  /\ last' = [Op("stream_url", pending[i].ws, pending[i].sessionId, TRUE)
                EXCEPT !.track = pending[i].track]
  /\ UNCHANGED <<now, sessions, persisted, nextClientId, nextTrack, conn,
                 timers, lastDeparture, readyHandled, hist>>

\* the running ffmpeg appends kib KiB to left.mp3 and to right.mp3, which it
\* encodes in one pass at the same bit rate
FfmpegWrite(t, kib) ==
  /\ t \in DOMAIN audioDir
  /\ audioDir[t].ffmpeg = "running"
  /\ audioDir' = [audioDir EXCEPT ![t].left = @ + kib, ![t].right = @ + kib,
                                  ![t].mtime = now]
  /\ sent' = <<>>
  /\ last' = [Op("ffmpeg_write", 0, 0, TRUE) EXCEPT !.track = t]
  /\ UNCHANGED <<now, sessions, persisted, nextClientId, nextTrack, conn,
                 pending, timers, lastDeparture, readyHandled, hist>>

\* ffmpeg closed with code 0: processStreamToChannels resolves, the duration
\* is probed, metadata.json is written and processYouTubeUrl returns; the
\* handler binds the track and suspends again at
\* "await audioProcessor.listAllAudio()"
SubmitResolve(i) ==
  /\ i \in 1..Len(pending)
  /\ pending[i].kind = "transcode"
  /\ LET p == pending[i]
     IN  /\ BindTrack(p.sessionId, p.track)
         /\ pending' = IF p.sessionId \in DOMAIN sessions
                       THEN [pending EXCEPT ![i].kind = "listing"]
                       ELSE RemoveAt(pending, i)
         /\ last' = [Op("submit_ok", p.ws, p.sessionId,
                        p.sessionId \in DOMAIN sessions)
                       EXCEPT !.track = p.track, !.prevTime = TimeOf(p.sessionId)]
         /\ readyHandled' = readyHandled \ RosterIds(sessions, p.sessionId)
         /\ audioDir' = [audioDir EXCEPT ![p.track].ffmpeg = "done",
                                         ![p.track].metadata = "ok",
                                         ![p.track].createdAt = now]
  /\ UNCHANGED <<now, nextClientId, nextTrack, conn, timers, lastDeparture>>

\* processYouTubeUrl rejected, because getStreamUrl rejected or because
\* ffmpeg closed with a non-zero code: the catch block answers the submitter
SubmitReject(i) ==
  /\ i \in 1..Len(pending)
  /\ pending[i].kind \in {"submit", "transcode"}
  /\ sent' = send(pending[i].ws, ErrorMsg(pending[i].ws, "Failed to process audio"))
  /\ last' = [Op("submit_failed", pending[i].ws, pending[i].sessionId, TRUE)
                EXCEPT !.track = pending[i].track]
  /\ audioDir' = IF pending[i].kind = "transcode"
                 THEN [audioDir EXCEPT ![pending[i].track].ffmpeg = "failed"]
                 ELSE audioDir
  /\ pending' = RemoveAt(pending, i)
  /\ UNCHANGED <<now, sessions, persisted, nextClientId, nextTrack,
                 conn, timers, lastDeparture, readyHandled, hist>>

\* case 'submit_link' after the second await: the track_list broadcast
SubmitList(i) ==
  /\ i \in 1..Len(pending)
  /\ pending[i].kind = "listing"
  /\ sent' = broadcastToSession(sessions, pending[i].sessionId,
                [Msg("track_list", 0, 0, TRUE) EXCEPT
                   !.tracks = TrackIds(listAllAudio(audioDir))])
  /\ last' = Op("submit_list", pending[i].ws, pending[i].sessionId, TRUE)
  /\ pending' = RemoveAt(pending, i)
  /\ UNCHANGED <<now, sessions, persisted, audioDir, nextClientId, nextTrack,
                 conn, timers, lastDeparture, readyHandled, hist>>

(* ---------------- load_track ---------------- *)
\* case 'load_track' up to "await audioProcessor.listAllAudio()"
LoadStart(w, trackId) ==
  /\ Receives(w)
  /\ IF conn[w].ctx = NoCtx THEN Dropped("load_track", w)
     ELSE /\ pending' = Append(pending, Pend("load", w, conn[w].ctx.sessionId, trackId))
          /\ sent' = <<>>
          /\ last' = Op("load_track", w, conn[w].ctx.sessionId, TRUE)
          /\ UNCHANGED <<now, sessions, persisted, audioDir, nextClientId,
                         nextTrack, conn, timers, lastDeparture, readyHandled, hist>>

\* case 'load_track' after the await
LoadFinish(i) ==
  /\ i \in 1..Len(pending)
  /\ pending[i].kind = "load"
  /\ LET p == pending[i]
     IN  IF ~HasTrack(listAllAudio(audioDir), p.track)
         THEN /\ sent' = send(p.ws, ErrorMsg(p.ws, "Track not found"))
              /\ last' = [Op("load_failed", p.ws, p.sessionId, TRUE)
                            EXCEPT !.track = p.track]
              /\ UNCHANGED <<sessions, persisted, hist>>
         ELSE /\ BindTrack(p.sessionId, p.track)
              /\ last' = [Op("load_ok", p.ws, p.sessionId,
                             p.sessionId \in DOMAIN sessions)
                            EXCEPT !.track = p.track, !.prevTime = TimeOf(p.sessionId)]
  /\ pending' = RemoveAt(pending, i)
  /\ UNCHANGED <<now, audioDir, nextClientId, nextTrack, conn, timers,
                 lastDeparture, readyHandled>>

(* ---------------- connection close ---------------- *)
\* the socket leaves the OPEN state; its close handler has not run yet
NetClose(w) ==
  /\ IsOpen(w)
  /\ conn' = [conn EXCEPT ![w].state = "closing"]
  /\ sent' = <<>>
  /\ last' = Op("net_close", w, 0, TRUE)
  /\ UNCHANGED <<now, sessions, persisted, audioDir, nextClientId, nextTrack,
                 pending, timers, lastDeparture, readyHandled, hist>>

\* removeClient: the roster update
removeClient(ss, s, cid) ==
  IF s \notin DOMAIN ss THEN ss
  ELSE [ss EXCEPT ![s].clients = SelectSeq(@, LAMBDA c : c.id # cid)]

SweepTimer(s, cid) == [id |-> cid, sessionId |-> s, fireAt |-> now + SweepDelayMs]

\* ws.on('close')
OnClose(w) ==
  /\ conn[w].state = "closing"
  /\ conn' = [conn EXCEPT ![w].state = "closed"]
  /\ IF conn[w].ctx = NoCtx
     THEN /\ sent' = <<>>
          /\ last' = Op("close", w, 0, FALSE)
          /\ UNCHANGED <<sessions, timers, lastDeparture, readyHandled, hist>>
     ELSE LET s == conn[w].ctx.sessionId
              cid == conn[w].ctx.clientId
              ss == removeClient(sessions, s, cid)
          IN  /\ sessions' = ss
              /\ timers' = IF s \in DOMAIN ss /\ Len(ss[s].clients) = 0
                              /\ ss[s].audioSource = NoTrack
                           THEN timers \cup {SweepTimer(s, cid)} ELSE timers
              /\ sent' = broadcastToSession(ss, s, ClientListMsg(ss, s))
              /\ last' = Op("close", w, s, TRUE)
              /\ lastDeparture' = IF s \in DOMAIN sessions
                                  THEN [lastDeparture EXCEPT ![s] = now]
                                  ELSE lastDeparture
              /\ readyHandled' = readyHandled \ {cid}
  /\ UNCHANGED <<now, persisted, audioDir, nextClientId, nextTrack, pending,
                 hist>>

sweepCheckNone(ss, s) == s \in DOMAIN ss

\* the condition re-checked by the timeout callback of removeClient
sweepCheck(ss, s) ==
  s \in DOMAIN ss /\ Len(ss[s].clients) = 0 /\ ss[s].audioSource = NoTrack

\* the setTimeout callback of removeClient
SweepFire(t) ==
  /\ t \in timers
  /\ now >= t.fireAt
  /\ timers' = timers \ {t}
  /\ sessions' = IF sweepCheck(sessions, t.sessionId)
                 THEN MapDel(sessions, t.sessionId) ELSE sessions
  /\ sent' = <<>>
  /\ last' = Op("sweep", 0, t.sessionId, sweepCheck(sessions, t.sessionId))
  /\ UNCHANGED <<now, persisted, audioDir, nextClientId, nextTrack, conn,
                 pending, lastDeparture, readyHandled, hist>>

(* ---------------- process restart ---------------- *)
\* the server process ends and is started again: sockets, suspended
\* handlers and timers are gone with the old process, sessions.json and the
\* audio root stay, and the new SessionManager runs loadState()
Restart ==
  /\ sessions' = loadState(persisted)
  /\ conn' = [w \in Conns |-> [state |-> "closed", ctx |-> NoCtx]]
  /\ pending' = <<>>
  /\ timers' = {}
  /\ sent' = <<>>
  /\ last' = Op("restart", 0, 0, TRUE)
  /\ readyHandled' = {}
  /\ hist' = [hist EXCEPT !.boots = @ + 1]
  /\ UNCHANGED <<now, persisted, audioDir, nextClientId, nextTrack,
                 lastDeparture>>

\* app.get('/ws'): a browser opens a new socket; the model reuses the slot of
\* a closed one that no roster entry and no suspended handler refers to
Connect(w) ==
  /\ conn[w].state = "closed"
  /\ \A s \in DOMAIN sessions : \A i \in 1..Len(sessions[s].clients) :
        sessions[s].clients[i].ws # w
  /\ \A i \in 1..Len(pending) : pending[i].ws # w
  /\ conn' = [conn EXCEPT ![w] = [state |-> "open", ctx |-> NoCtx]]
  /\ sent' = <<>>
  /\ last' = Op("connect", w, 0, TRUE)
  /\ UNCHANGED <<now, sessions, persisted, audioDir, nextClientId, nextTrack,
                 pending, timers, lastDeparture, readyHandled, hist>>

\* passage of time; a due timer fires before the clock moves on
Tick(ms) ==
  /\ \A t \in timers : now < t.fireAt
  /\ now' = now + ms
  /\ sent' = <<>>
  /\ last' = Op("tick", 0, 0, TRUE)
  /\ UNCHANGED <<sessions, persisted, audioDir, nextClientId, nextTrack, conn,
                 pending, timers, lastDeparture, readyHandled, hist>>

(* ---------------- specifications ---------------- *)
\* bounds on fresh ids, on suspended handlers and on the clock
CanJoin(n) == nextClientId <= n
Room(n) == Len(pending) < n
\* a valid submission draws a fresh track id
CanSubmit(u, n) == isYouTubeUrl(u) => nextTrack <= n
Before(n) == now < StartTime + n * TickMs

\* Channel assignment: joins and disconnects only, every connection joining
\* once as the browser client does.
NextAssign ==
  \/ \E w \in Conns, s \in SessionIds :
       /\ conn[w].ctx = NoCtx /\ Room(MaxPending)
       /\ JoinStart(w, s) /\ UNCHANGED cvars
  \/ \E i \in 1..Len(pending) : JoinFinish(i) /\ UNCHANGED cvars
  \/ \E w \in Conns : NetClose(w) /\ UNCHANGED cvars
  \/ \E w \in Conns : OnClose(w) /\ UNCHANGED cvars

SpecAssign == Init /\ [][NextAssign]_vars

\* Session lifecycle: joins, disconnects, track binding by submit_link, the
\* 60 s sweeps and the clock.
NextRoster ==
  \/ \E w \in 1..RosterConns :
       CanJoin(RosterClients) /\ Room(MaxPending) /\ JoinStart(w, 1) /\ UNCHANGED cvars
  \/ \E i \in 1..Len(pending) : JoinFinish(i) /\ UNCHANGED cvars
  \/ \E w \in 1..RosterConns, u \in Urls :
       /\ Room(MaxPending) /\ CanSubmit(u, MaxTracks)
       /\ SubmitStart(w, u) /\ UNCHANGED cvars
  \/ \E i \in 1..Len(pending) : GetStreamUrl(i) /\ UNCHANGED cvars
  \/ \E i \in 1..Len(pending) : SubmitResolve(i) /\ UNCHANGED cvars
  \/ \E i \in 1..Len(pending) : SubmitReject(i) /\ UNCHANGED cvars
  \/ \E i \in 1..Len(pending) : SubmitList(i) /\ UNCHANGED cvars
  \/ \E w \in 1..RosterConns : NetClose(w) /\ UNCHANGED cvars
  \/ \E w \in 1..RosterConns : OnClose(w) /\ UNCHANGED cvars
  \/ \E t \in timers : SweepFire(t) /\ UNCHANGED cvars
  \/ Before(MaxTicks) /\ Tick(TickMs) /\ UNCHANGED cvars

SpecRoster == Init /\ [][NextRoster]_vars

\* Scheduled play, pause and seek broadcasts inside one session.
NextPlay ==
  \/ \E w \in 1..PlayConns :
       CanJoin(PlayClients) /\ Room(MaxPending) /\ JoinStart(w, 1) /\ UNCHANGED cvars
  \/ \E i \in 1..Len(pending) : JoinFinish(i) /\ UNCHANGED cvars
  \/ \E w \in 1..PlayConns : PlayRequest(w) /\ UNCHANGED cvars
  \/ \E w \in 1..PlayConns : PauseRequest(w) /\ UNCHANGED cvars
  \/ \E w \in 1..PlayConns, t \in SeekTargets : SeekRequest(w, t) /\ UNCHANGED cvars
  \/ \E w \in 1..PlayConns, d \in PingDeltas : Ping(w, now - d) /\ UNCHANGED cvars
  \/ \E w \in 1..PlayConns, u \in Urls :
       /\ Room(MaxPending) /\ CanSubmit(u, MaxTracks)
       /\ SubmitStart(w, u) /\ UNCHANGED cvars
  \/ \E i \in 1..Len(pending) : GetStreamUrl(i) /\ UNCHANGED cvars
  \/ \E i \in 1..Len(pending) : SubmitResolve(i) /\ UNCHANGED cvars
  \/ \E i \in 1..Len(pending) : SubmitReject(i) /\ UNCHANGED cvars
  \/ \E i \in 1..Len(pending) : SubmitList(i) /\ UNCHANGED cvars
  \/ \E w \in 1..PlayConns, t \in Tracks :
       Room(MaxPending) /\ LoadStart(w, t) /\ UNCHANGED cvars
  \/ \E i \in 1..Len(pending) : LoadFinish(i) /\ UNCHANGED cvars
  \/ \E w \in 1..PlayConns : NetClose(w) /\ UNCHANGED cvars
  \/ \E w \in 1..PlayConns : OnClose(w) /\ UNCHANGED cvars
  \/ Before(PlayTicks) /\ Tick(TickMs) /\ UNCHANGED cvars

SpecPlay == Init /\ [][NextPlay]_vars

\* Track binding and the ready fan-in inside one session.
NextReady ==
  \/ \E w \in 1..PlayConns :
       CanJoin(PlayClients) /\ Room(MaxPending) /\ JoinStart(w, 1) /\ UNCHANGED cvars
  \/ \E i \in 1..Len(pending) : JoinFinish(i) /\ UNCHANGED cvars
  \/ \E w \in 1..PlayConns : Ready(w) /\ UNCHANGED cvars
  \/ \E w \in 1..PlayConns : PlayRequest(w) /\ UNCHANGED cvars
  \/ \E w \in 1..PlayConns, t \in SeekTargets : SeekRequest(w, t) /\ UNCHANGED cvars
  \/ \E w \in 1..PlayConns, u \in Urls :
       /\ Room(MaxPending) /\ CanSubmit(u, MaxTracks)
       /\ SubmitStart(w, u) /\ UNCHANGED cvars
  \/ \E i \in 1..Len(pending) : GetStreamUrl(i) /\ UNCHANGED cvars
  \/ \E i \in 1..Len(pending) : SubmitResolve(i) /\ UNCHANGED cvars
  \/ \E i \in 1..Len(pending) : SubmitReject(i) /\ UNCHANGED cvars
  \/ \E i \in 1..Len(pending) : SubmitList(i) /\ UNCHANGED cvars
  \/ \E w \in 1..PlayConns, t \in 1..(MaxTracks + 1) :
       Room(MaxPending) /\ LoadStart(w, t) /\ UNCHANGED cvars
  \/ \E i \in 1..Len(pending) : LoadFinish(i) /\ UNCHANGED cvars
  \/ \E w \in 1..PlayConns : NetClose(w) /\ UNCHANGED cvars
  \/ \E w \in 1..PlayConns : OnClose(w) /\ UNCHANGED cvars
  \/ Before(PlayTicks) /\ Tick(TickMs) /\ UNCHANGED cvars

SpecReady == Init /\ [][NextReady]_vars

\* Ingestions of one session.
NextIngest ==
  \/ \E w \in 1..PlayConns :
       CanJoin(PlayClients) /\ Room(IngestPending) /\ JoinStart(w, 1) /\ UNCHANGED cvars
  \/ \E i \in 1..Len(pending) : JoinFinish(i) /\ UNCHANGED cvars
  \/ \E w \in 1..PlayConns, u \in MoreUrls :
       /\ Room(IngestPending) /\ CanSubmit(u, IngestTracks)
       /\ SubmitStart(w, u) /\ UNCHANGED cvars
  \/ \E i \in 1..Len(pending) : GetStreamUrl(i) /\ UNCHANGED cvars
  \/ \E i \in 1..Len(pending) : SubmitResolve(i) /\ UNCHANGED cvars
  \/ \E i \in 1..Len(pending) : SubmitReject(i) /\ UNCHANGED cvars
  \/ \E i \in 1..Len(pending) : SubmitList(i) /\ UNCHANGED cvars
  \/ \E w \in 1..PlayConns : NetClose(w) /\ UNCHANGED cvars
  \/ \E w \in 1..PlayConns : OnClose(w) /\ UNCHANGED cvars

SpecIngest == Init /\ [][NextIngest]_vars

\* Clock synchronisation and scheduled start: two devices, one of them with
\* a skewed clock, join one session; pings travel 0 or SyncTickMs.
NetRoom == \A w \in Conns : Len(net[w]) < MaxNet
PingsOf(w) ==
  Len(cli[w].latencySamples)
    + Len(SelectSeq(net[w], LAMBDA m : m.type = "pong"))

NextSync ==
  \/ \E w \in 1..PlayConns :
       /\ conn[w].ctx = NoCtx /\ Room(MaxPending) /\ NetRoom
       /\ JoinStart(w, 1) /\ UNCHANGED <<cli, playSeq>> /\ Deliver
  \/ \E i \in 1..Len(pending) :
       NetRoom /\ JoinFinish(i) /\ UNCHANGED <<cli, playSeq>> /\ Deliver
  \/ \E w \in 1..PlayConns, u \in {x \in Urls : isYouTubeUrl(x)} :
       /\ Room(MaxPending) /\ NetRoom /\ CanSubmit(u, MaxTracks)
       /\ SubmitStart(w, u) /\ UNCHANGED <<cli, playSeq>> /\ Deliver
  \/ \E i \in 1..Len(pending) : GetStreamUrl(i) /\ UNCHANGED cvars
  \/ \E i \in 1..Len(pending) :
       /\ NetRoom
       /\ SubmitResolve(i) /\ UNCHANGED <<cli, playSeq>> /\ Deliver
  \/ \E w \in 1..PlayConns, d \in {0, SyncTickMs} :
       /\ PingsOf(w) < SyncPings /\ NetRoom
       /\ Ping(w, LocalNow(w) - d) /\ UNCHANGED <<cli, playSeq>> /\ Deliver
  \/ \E w \in 1..PlayConns :
       /\ playSeq < SyncPlays /\ NetRoom
       /\ PlayRequest(w)
       /\ playSeq' = IF last'.ok THEN playSeq + 1 ELSE playSeq
       /\ Deliver /\ UNCHANGED cli
  \/ \E w \in 1..PlayConns, loaded \in BOOLEAN : ClientRecv(w, loaded)
  \/ /\ now < StartTime + SyncTicks * SyncTickMs
     /\ Tick(SyncTickMs) /\ UNCHANGED cvars

SpecSync == Init /\ [][NextSync]_vars

\* The browser clients of one session: joins, one ingestion that succeeds or
\* fails, play and pause requests, and the clients' handling of what the
\* server sends them.  The server finishes the handlers it has started and
\* the clients handle what has reached them; users need not act.
NextClient ==
  \/ \E w \in 1..PlayConns :
       /\ conn[w].ctx = NoCtx /\ Room(MaxPending) /\ NetRoom
       /\ JoinStart(w, 1) /\ UNCHANGED <<cli, playSeq>> /\ Deliver
  \/ \E i \in 1..Len(pending) :
       NetRoom /\ JoinFinish(i) /\ UNCHANGED <<cli, playSeq>> /\ Deliver
  \/ \E w \in 1..PlayConns, u \in Urls :
       /\ Room(MaxPending) /\ NetRoom /\ CanSubmit(u, MaxTracks)
       /\ SubmitStart(w, u) /\ UNCHANGED <<cli, playSeq>> /\ Deliver
  \/ \E i \in 1..Len(pending) : GetStreamUrl(i) /\ UNCHANGED cvars
  \/ \E i \in 1..Len(pending) :
       NetRoom /\ SubmitResolve(i) /\ UNCHANGED <<cli, playSeq>> /\ Deliver
  \/ \E i \in 1..Len(pending) :
       NetRoom /\ SubmitReject(i) /\ UNCHANGED <<cli, playSeq>> /\ Deliver
  \/ \E i \in 1..Len(pending) :
       NetRoom /\ SubmitList(i) /\ UNCHANGED <<cli, playSeq>> /\ Deliver
  \/ \E w \in 1..PlayConns :
       /\ playSeq < SyncPlays /\ NetRoom
       /\ PlayRequest(w)
       /\ playSeq' = IF last'.ok THEN playSeq + 1 ELSE playSeq
       /\ Deliver /\ UNCHANGED cli
  \/ \E w \in 1..PlayConns :
       /\ NetRoom /\ \E v \in Conns : cli[v].isPlaying
       /\ PauseRequest(w) /\ UNCHANGED <<cli, playSeq>> /\ Deliver
  \/ \E w \in 1..PlayConns, loaded \in BOOLEAN : ClientRecv(w, loaded)

SpecClient == Init /\ [][NextClient]_vars

\* a handler suspended at an await is resumed (the event loop runs the
\* continuation when the awaited promise settles; yt-dlp and ffmpeg exit)
FinishHandler ==
  \/ \E i \in 1..Len(pending) : GetStreamUrl(i) /\ UNCHANGED cvars
  \/ \E i \in 1..Len(pending) :
       /\ NetRoom
       /\ JoinFinish(i) \/ SubmitResolve(i) \/ SubmitReject(i) \/ SubmitList(i)
       /\ UNCHANGED <<cli, playSeq>> /\ Deliver

\* the browser dispatches the oldest message its socket has received
HandleMessage(w) == \E loaded \in BOOLEAN : ClientRecv(w, loaded)

\* SpecClient with the scheduling of the two event loops: suspended handlers
\* are resumed and received messages are handled; users need not act.
SpecClientLive ==
  /\ Init /\ [][NextClient]_vars
  /\ WF_vars(FinishHandler)
  /\ \A w \in 1..PlayConns : WF_vars(HandleMessage(w))

\* Persistence: track bindings in two sessions, process restarts and joins
\* of fresh sockets.
NextRestart ==
  \/ \E w \in 1..PlayConns, s \in SessionIds :
       /\ conn[w].ctx = NoCtx /\ CanJoin(RestartClients) /\ Room(MaxPending)
       /\ JoinStart(w, s) /\ UNCHANGED cvars
  \/ \E i \in 1..Len(pending) : JoinFinish(i) /\ UNCHANGED cvars
  \/ \E w \in 1..PlayConns, u \in {x \in Urls : isYouTubeUrl(x)} :
       /\ Room(MaxPending) /\ CanSubmit(u, RestartTracks)
       /\ SubmitStart(w, u) /\ UNCHANGED cvars
  \/ \E i \in 1..Len(pending) : GetStreamUrl(i) /\ UNCHANGED cvars
  \/ \E i \in 1..Len(pending) : SubmitResolve(i) /\ UNCHANGED cvars
  \/ \E i \in 1..Len(pending) : SubmitList(i) /\ UNCHANGED cvars
  \/ \E w \in 1..PlayConns, t \in 1..RestartTracks :
       Room(MaxPending) /\ LoadStart(w, t) /\ UNCHANGED cvars
  \/ \E i \in 1..Len(pending) : LoadFinish(i) /\ UNCHANGED cvars
  \/ hist.boots < MaxRestarts /\ Restart /\ UNCHANGED cvars
  \/ \E w \in 1..PlayConns : Connect(w) /\ UNCHANGED cvars
  \/ Before(PlayTicks) /\ Tick(TickMs) /\ UNCHANGED cvars

SpecRestart == Init /\ [][NextRestart]_vars

\* One ingestion seen from the audio root: two clients of one session, the
\* transcoder writing its two output files chunk by chunk while the clock
\* runs, and its exit with or without success.
NextTranscode ==
  \/ \E w \in 1..PlayConns :
       /\ conn[w].ctx = NoCtx /\ Room(MaxPending)
       /\ JoinStart(w, 1) /\ UNCHANGED cvars
  \/ \E i \in 1..Len(pending) : JoinFinish(i) /\ UNCHANGED cvars
  \/ \E w \in 1..PlayConns, u \in {x \in Urls : isYouTubeUrl(x)} :
       /\ Room(MaxPending) /\ CanSubmit(u, MaxTracks)
       /\ SubmitStart(w, u) /\ UNCHANGED cvars
  \/ \E i \in 1..Len(pending) : GetStreamUrl(i) /\ UNCHANGED cvars
  \/ \E t \in DOMAIN audioDir :
       /\ audioDir[t].left < MaxKiB
       /\ FfmpegWrite(t, ChunkKiB) /\ UNCHANGED cvars
  \/ \E i \in 1..Len(pending) : SubmitResolve(i) /\ UNCHANGED cvars
  \/ \E i \in 1..Len(pending) : SubmitReject(i) /\ UNCHANGED cvars
  \/ \E i \in 1..Len(pending) : SubmitList(i) /\ UNCHANGED cvars
  \/ /\ now < StartTime + TranscodeTicks * TranscodeTickMs
     /\ Tick(TranscodeTickMs) /\ UNCHANGED cvars

SpecTranscode == Init /\ [][NextTranscode]_vars

\* The clock-offset filter of two devices: pongs of pings with a slower way
\* up, with a much slower way up, or with a slower way back.
PongDelays == {[up |-> 20, down |-> 0], [up |-> 2000, down |-> 0],
               [up |-> 0, down |-> 20]}

NextPong ==
  \E w \in 1..PlayConns, d \in PongDelays : PongArrives(w, d.up, d.down)

SpecPong == Init /\ [][NextPong]_vars

\* Volume sliders: three devices join one session, move the slider of a
\* channel, and leave.
Volumes == {0, 50}

NextVolume ==
  \/ \E w \in 1..RosterClients :
       /\ conn[w].ctx = NoCtx /\ Room(MaxPending)
       /\ JoinStart(w, 1) /\ UNCHANGED cvars
  \/ \E i \in 1..Len(pending) : JoinFinish(i) /\ UNCHANGED cvars
  \/ \E w \in 1..RosterClients, ch \in {"left", "right"}, v \in Volumes :
       VolumeRequest(w, ch, v) /\ UNCHANGED cvars
  \/ \E w \in 1..RosterClients : NetClose(w) /\ UNCHANGED cvars
  \/ \E w \in 1..RosterClients : OnClose(w) /\ UNCHANGED cvars

SpecVolume == Init /\ [][NextVolume]_vars

\* The audio engines of two devices: the buffer is loaded, playback is
\* scheduled for a time that has passed, is now or lies ahead, it is paused,
\* and the clocks run.
AheadBy2 == {-200, 0, 41, 960}

NextEngine ==
  \/ \E w \in 1..PlayConns : ~cli[w].audioBuffer /\ EngineLoad(w)
  \/ \E w \in 1..PlayConns, f \in {0} \cup SeekTargets, a \in AheadBy2 :
       EnginePlayAt(w, f, a)
  \/ \E w \in 1..PlayConns : EnginePause(w)
  \/ /\ now < StartTime + EngineTicks * SyncTickMs
     /\ Tick(SyncTickMs) /\ UNCHANGED cvars

SpecEngine == Init /\ [][NextEngine]_vars

\* The library: the process starts over an audio root that holds LibDirs
\* directories of earlier runs, each without metadata.json, with one that
\* does not parse, or with one written by saveMetadata at some earlier time;
\* clients join (and are sent the track list), load tracks by id, and one
\* more track is ingested.
LibStamps == {400, 700}
OldDirs ==
  {NewDir, [NewDir EXCEPT !.metadata = "bad", !.ffmpeg = "done"]}
    \cup {[NewDir EXCEPT !.metadata = "ok", !.createdAt = c, !.ffmpeg = "done"] :
            c \in LibStamps}

InitLibrary ==
  /\ now = StartTime
  /\ sessions = EmptyMap
  /\ persisted = EmptyMap
  /\ audioDir \in [1..LibDirs -> OldDirs]
  /\ nextClientId = 1
  /\ nextTrack = LibDirs + 1
  /\ conn = [w \in Conns |-> [state |-> "open", ctx |-> NoCtx]]
  /\ pending = <<>>
  /\ timers = {}
  /\ sent = <<>>
  /\ last = Op("init", 0, 0, TRUE)
  /\ lastDeparture = [s \in SessionIds |-> -1]
  /\ readyHandled = {}
  /\ hist = [lastBound |-> [s \in SessionIds |-> NoTrack], boots |-> 0]
  /\ net = [w \in Conns |-> <<>>]
  /\ cli = [w \in Conns |-> NewClient]
  /\ playSeq = 0

NextLibrary ==
  \/ \E w \in 1..PlayConns :
       /\ conn[w].ctx = NoCtx /\ Room(MaxPending)
       /\ JoinStart(w, 1) /\ UNCHANGED cvars
  \/ \E i \in 1..Len(pending) : JoinFinish(i) /\ UNCHANGED cvars
  \/ \E w \in 1..PlayConns, u \in {x \in Urls : isYouTubeUrl(x)} :
       /\ Room(MaxPending) /\ CanSubmit(u, LibDirs + 1)
       /\ SubmitStart(w, u) /\ UNCHANGED cvars
  \/ \E i \in 1..Len(pending) : GetStreamUrl(i) /\ UNCHANGED cvars
  \/ \E i \in 1..Len(pending) : SubmitResolve(i) /\ UNCHANGED cvars
  \/ \E i \in 1..Len(pending) : SubmitList(i) /\ UNCHANGED cvars
  \/ \E w \in 1..PlayConns, t \in 1..(LibDirs + 1) :
       /\ Room(MaxPending) /\ LoadStart(w, t) /\ UNCHANGED cvars
  \/ \E i \in 1..Len(pending) : LoadFinish(i) /\ UNCHANGED cvars

SpecLibrary == InitLibrary /\ [][NextLibrary]_vars

(* ======================= claims ======================= *)
Roster(s) == sessions[s].clients
LeftCount(cs) == CountChannel(cs, "left")
RightCount(cs) == CountChannel(cs, "right")
\* the messages of the last step sent for client cid
SentFor(cid, type) == SelectSeq(sent, LAMBDA m : m.cid = cid /\ m.type = type)

\* C1: after every join_session the joiner (the newest roster entry) has
\* channel left when the roster it joined had no more left than right
\* clients and right otherwise, session_joined carries that channel, and no
\* client of any roster is ever stereo.
C1_ChannelPolicy ==
  /\ \A s \in DOMAIN sessions : \A i \in 1..Len(Roster(s)) :
        Roster(s)[i].assignedChannel \in {"left", "right"}
  /\ (last.op = "join_session") =>
        LET cs == Roster(last.sessionId)
            before == SubSeq(cs, 1, Len(cs) - 1)
            joiner == cs[Len(cs)]
            expected == IF LeftCount(before) <= RightCount(before)
                        THEN "left" ELSE "right"
        IN  /\ joiner.assignedChannel = expected
            /\ Len(SentFor(joiner.id, "session_joined")) = 1
            /\ SentFor(joiner.id, "session_joined")[1].channel = expected

\* a join into a roster of three with more left than right clients
C1_Witness ==
  /\ last.op = "join_session"
  /\ Len(Roster(last.sessionId)) = 4
  /\ LET cs == Roster(last.sessionId)
     IN  /\ RightCount(SubSeq(cs, 1, 3)) = 1
         /\ LeftCount(SubSeq(cs, 1, 3)) = 2
         /\ cs[4].assignedChannel = "right"

\* C2: in every reachable state every roster of two or more clients has
\* (number of left clients) - (number of right clients) in {-1, 0, 1}.
C2_Balanced ==
  \A s \in DOMAIN sessions :
    Len(Roster(s)) >= 2 => LeftCount(Roster(s)) - RightCount(Roster(s)) \in {-1, 0, 1}

\* C9: a step removes a session from the store only if that session has no
\* client and no bound track.
C9_RemovedOnlyIfEmptyAndTrackless ==
  [][\A s \in DOMAIN sessions :
       s \notin DOMAIN sessions' =>
         Len(sessions[s].clients) = 0 /\ sessions[s].audioSource = NoTrack]_vars

\* a sweep fired and left the session in place because of the re-check
C9_Witness ==
  /\ last.op = "sweep"
  /\ ~last.ok
  /\ last.sessionId \in DOMAIN sessions
  /\ sessions[last.sessionId].audioSource # NoTrack \/ Len(Roster(last.sessionId)) > 0

\* GET /api/session/:sessionId
ApiSessionStatus(s) == IF s \in DOMAIN sessions THEN 200 ELSE 404

\* C10: when a sweep removes a session, at least 60 s have passed since the
\* most recent departure from it, and the session endpoint then answers 404.
C10_NotBefore60s ==
  (last.op = "sweep" /\ last.ok) =>
    /\ now >= lastDeparture[last.sessionId] + SweepDelayMs
    /\ ApiSessionStatus(last.sessionId) = 404

IngestionsInFlight(s) ==
  Cardinality({i \in 1..Len(pending) :
                 /\ pending[i].kind \in {"submit", "transcode"}
                 /\ pending[i].sessionId = s})

\* C7: at most one ingestion is in flight per session at any time.
C7_OneIngestionPerSession ==
  \A s \in SessionIds : IngestionsInFlight(s) <= 1

\* C3: after play_request is handled at server time T = now in a session
\* with a bound track, isPlaying is true and every roster client with an open
\* connection was sent exactly one play message, on its own socket, with
\* serverTimestamp T + 500 - latency/2 and startTime = currentTime.
C3_ScheduledPlay ==
  (last.op = "play_request" /\ last.ok) =>
    LET s == last.sessionId
        cs == Roster(s)
    IN  /\ sessions[s].playbackState.isPlaying
        /\ \A i \in 1..Len(cs) :
              IsOpen(cs[i].ws) =>
                LET ms == SentFor(cs[i].id, "play")
                IN  /\ Len(ms) = 1
                    /\ ms[1].ws = cs[i].ws
                    /\ ms[1].ts2 = 2 * (now + 500) - cs[i].latency
                    /\ ms[1].startTime = sessions[s].playbackState.currentTime
        /\ \A j \in 1..Len(sent) :
              sent[j].type = "play" /\ sent[j].cid \in RosterIds(sessions, s)

\* the scenario of the specification: T = 1000, latencies 20 and 120
C3_Witness ==
  /\ last.op = "play_request"
  /\ last.ok
  /\ now = 1000
  /\ \E j, k \in 1..Len(sent) :
        /\ sent[j].ws # sent[k].ws
        /\ sent[j].ts2 = 2 * 1490 /\ sent[k].ts2 = 2 * 1440
        /\ sent[j].startTime = 0 /\ sent[k].startTime = 0

\* the types of the fan-out messages of the last step sent for client cid
FanTypes(cid) ==
  LET ms == SelectSeq(sent, LAMBDA m : m.fan /\ m.cid = cid)
  IN  [i \in 1..Len(ms) |-> ms[i].type]

C5_AllReadyNeedsEveryReady ==
  /\ (last.op = "submit_ok") => ~areAllClientsReady(sessions, last.sessionId)
  /\ \A s \in SessionIds :
        /\ areAllClientsReady(sessions, s) =>
             RosterIds(sessions, s) \subseteq readyHandled
        /\ RosterIds(sessions, s) = {} => ~areAllClientsReady(sessions, s)

\* both clients of a session have reported ready for a track that was bound
\* after the clock had advanced past the session's creation
C5_Witness ==
  /\ 1 \in DOMAIN sessions
  /\ sessions[1].audioSource # NoTrack
  /\ Len(Roster(1)) = 2
  /\ areAllClientsReady(sessions, 1)
  /\ sessions[1].createdAt < sessions[1].playbackState.lastSyncTimestamp

\* the instant handed to playAt by connection w, in server time
ScheduledServer2(w) == cli[w].scheduled2 + 2 * TrueOffset[w]
ExactAtPlay(w) == cli[w].offsetUsed2 = 2 * TrueOffset[w]

\* C4: any two clients that scheduled the play of the same play_request
\* with an exact clock-offset estimate scheduled it for the same instant of
\* server time.
C4_SameInstant ==
  \A v, w \in Conns :
    (/\ cli[v].playReq # 0 /\ cli[v].playReq = cli[w].playReq
     /\ ExactAtPlay(v) /\ ExactAtPlay(w))
      => ScheduledServer2(v) = ScheduledServer2(w)

SentTo(w) == SelectSeq(sent, LAMBDA m : m.ws = w)

\* C12: the join step of a session with a bound track writes to the joiner
\* session_joined and then audio_ready for that track, neither step of
\* join_session sends a play message, and a client's audio engine is playing
\* only if the client has handled a play broadcast.
C12_JoinerSilentUntilPlay ==
  /\ (last.op = "join_session") =>
        /\ \A j \in 1..Len(sent) : sent[j].type # "play"
        /\ sessions[last.sessionId].audioSource # NoTrack =>
              /\ Len(SentTo(last.ws)) = 2
              /\ SentTo(last.ws)[1].type = "session_joined"
              /\ SentTo(last.ws)[2].type = "audio_ready"
              /\ SentTo(last.ws)[2].track = sessions[last.sessionId].audioSource
  /\ (last.op = "join_finish") =>
        \A j \in 1..Len(sent) : sent[j].type \notin {"play", "audio_ready"}
  /\ \A w \in Conns : cli[w].isPlaying => cli[w].playReq # 0

\* a client joins a session whose isPlaying is true while the other client's
\* engine is playing, and is sent session_joined and audio_ready
C12_Witness ==
  /\ last.op = "join_session"
  /\ sessions[last.sessionId].playbackState.isPlaying
  /\ Len(SentTo(last.ws)) = 2
  /\ ~cli[last.ws].isPlaying
  /\ \E v \in Conns : cli[v].isPlaying

\* C13: after pause_request or seek_request is handled at server time
\* T = now, every roster client with an open connection was sent exactly one
\* message of that type, on its own socket, all of them with
\* serverTimestamp = T and the same time field; after pause isPlaying is
\* false, after seek currentTime is the targetTime the messages carry.
C13_PauseSeekAtNow ==
  (last.op \in {"pause_request", "seek_request"} /\ last.ok
     /\ last.sessionId \in DOMAIN sessions) =>
    LET s == last.sessionId
        type == IF last.op = "pause_request" THEN "pause" ELSE "seek"
    IN  /\ \A i \in 1..Len(Roster(s)) :
              IsOpen(Roster(s)[i].ws) =>
                /\ Len(SentFor(Roster(s)[i].id, type)) = 1
                /\ SentFor(Roster(s)[i].id, type)[1].ws = Roster(s)[i].ws
        /\ \A j \in 1..Len(sent) :
              /\ sent[j].type = type
              /\ sent[j].ts2 = 2 * now
              /\ sent[j].startTime = sessions[s].playbackState.currentTime
        /\ last.op = "pause_request" => ~sessions[s].playbackState.isPlaying
        /\ last.op = "seek_request" =>
              sessions[s].playbackState.currentTime \in SeekTargets
        /\ sessions[s].playbackState.lastSyncTimestamp = now

\* a seek to 30 s reaches two clients with different stored latencies while
\* the session is playing
C13_Witness ==
  /\ last.op = "seek_request"
  /\ last.sessionId \in DOMAIN sessions
  /\ sessions[last.sessionId].playbackState.isPlaying
  /\ Len(sent) = 2
  /\ sent[1].ws # sent[2].ws
  /\ sent[1].startTime = 30
  /\ \E i, j \in 1..Len(Roster(last.sessionId)) :
        Roster(last.sessionId)[i].latency # Roster(last.sessionId)[j].latency

\* C14: a step that handles a submit_link of a joined connection whose url
\* does not parse or whose host is none of youtube.com, www.youtube.com,
\* m.youtube.com, youtu.be writes one error to the submitter and nothing
\* else, starts no ingestion and leaves the sessions, the persisted document
\* and the audio root as they were.
C14_BadUrlOnlyError ==
  [][(/\ last'.op = "submit_link" /\ last'.sessionId # 0
      /\ ~(/\ last'.url.ok
            /\ last'.url.host \in {"youtube.com", "www.youtube.com",
                                   "m.youtube.com", "youtu.be"}))
       => /\ Len(sent') = 1
          /\ sent'[1].type = "error"
          /\ sent'[1].ws = last'.ws
          /\ sessions' = sessions
          /\ pending' = pending
          /\ audioDir' = audioDir
          /\ persisted' = persisted]_vars

\* a url of another YouTube host was refused in a session of two clients
\* that has a bound track
C14_Witness ==
  /\ last.op = "submit_link"
  /\ ~last.ok
  /\ last.url.host = "music.youtube.com"
  /\ last.sessionId \in DOMAIN sessions
  /\ sessions[last.sessionId].audioSource # NoTrack
  /\ Len(Roster(last.sessionId)) = 2
  /\ Len(sent) = 1
  /\ sent[1].type = "error"

\* C15 (as stated): a step in which an ingestion fails after audio_loading
\* (no stream url, or the transcoder exits non-zero) writes exactly one
\* message, an error on the submitter's socket, and leaves the sessions and
\* the persisted document as they were.
C15_ExactlyOneError ==
  [][last'.op = "submit_failed"
       => /\ Len(sent') = 1
          /\ sent'[1].type = "error"
          /\ sent'[1].ws = last'.ws
          /\ sessions' = sessions
          /\ persisted' = persisted]_vars

\* C15: a step in which an ingestion fails after audio_loading writes
\* nothing but an error on the submitter's socket, exactly one if that
\* socket is still open and none otherwise; it writes no audio_ready and
\* leaves the sessions (audioSource, playbackState, ready flags) and the
\* persisted document as they were.
C15_FailureOnlyErrorToSubmitter ==
  [][last'.op = "submit_failed"
       => /\ Len(sent') = (IF IsOpen(last'.ws) THEN 1 ELSE 0)
          /\ \A j \in 1..Len(sent') :
                sent'[j].type = "error" /\ sent'[j].ws = last'.ws
          /\ sessions' = sessions
          /\ persisted' = persisted]_vars

\* the transcoder of an ingestion failed in a session of two connected
\* clients and the submitter alone was told
C15_Witness ==
  /\ last.op = "submit_failed"
  /\ audioDir[last.track].ffmpeg = "failed"
  /\ last.sessionId \in DOMAIN sessions
  /\ Len(Roster(last.sessionId)) = 2
  /\ \A i \in 1..2 : IsOpen(Roster(last.sessionId)[i].ws)
  /\ Len(sent) = 1
  /\ sent[1].type = "error"
  /\ sent[1].ws = last.ws

\* C16: once an ingestion has failed, every client that is in the loading
\* status eventually leaves it.
C16_AllLeaveLoading ==
  \A w \in 1..PlayConns :
    (last.op = "submit_failed" /\ cli[w].status = "loading")
      ~> (cli[w].status # "loading")

\* the submitter's part of C16, which the error envelope does bring about
SubmitterLeavesLoading ==
  \A w \in 1..PlayConns :
    (last.op = "submit_failed" /\ last.ws = w /\ cli[w].status = "loading")
      ~> (cli[w].status # "loading")

\* audio_ready for track t has been fanned out: the only statements that
\* send it follow setAudioSource
Announced(t) == \E s \in DOMAIN sessions : sessions[s].audioSource = t

\* C17: while the transcoder of a track is running, once left.mp3 and
\* right.mp3 both hold 500 KiB and one polling interval of 200 ms has passed
\* since they were last written, audio_ready for the track has been fanned
\* out.
C17_ReadyBeforeExit ==
  \A t \in DOMAIN audioDir :
    (/\ audioDir[t].ffmpeg = "running"
     /\ audioDir[t].left >= 500 /\ audioDir[t].right >= 500
     /\ now >= audioDir[t].mtime + 200)
      => Announced(t)

\* C18: no directory of an ingestion whose transcoder exited with a
\* non-zero code remains under the audio root.
C18_FailedDirDeleted ==
  \A t \in DOMAIN audioDir : audioDir[t].ffmpeg # "failed"

\* the track list that the step's track_list messages carry
ListSent == SelectSeq(sent, LAMBDA m : m.type = "track_list")

\* C19: listAllAudio returns one entry for each directory of the audio root
\* whose metadata.json is read and parsed and none for any other directory,
\* in descending order of createdAt; the track_list messages of a step carry
\* that list.
C19_ListIsParsedNewestFirst ==
  LET r == listAllAudio(audioDir)
  IN  /\ \A t \in DOMAIN audioDir :
            Cardinality({i \in 1..Len(r) : r[i].id = t})
              = (IF audioDir[t].metadata = "ok" THEN 1 ELSE 0)
      /\ \A i \in 1..Len(r) :
            r[i].id \in DOMAIN audioDir /\ r[i].createdAt = audioDir[r[i].id].createdAt
      /\ \A i, j \in 1..Len(r) : i < j => r[i].createdAt >= r[j].createdAt
      /\ \A k \in 1..Len(ListSent) : ListSent[k].tracks = TrackIds(r)

\* a joiner is sent the list of an audio root in which an unreadable
\* directory is skipped and the newest track, ingested in this run, comes
\* before an older one that readdir lists first
C19_Witness ==
  /\ last.op = "join_finish"
  /\ Len(ListSent) = 1
  /\ ListSent[1].tracks = <<4, 3, 1>>
  /\ audioDir[2].metadata = "bad"
  /\ audioDir[1].createdAt < audioDir[3].createdAt

ClientOf(s, cid) ==
  LET q == SelectSeq(Roster(s), LAMBDA c : c.id = cid) IN q[1]

\* C21: every audio_ready of a step (on join, after submit_link, after
\* load_track) is addressed to a client of the step's session, names the
\* session's bound track and carries the url of that track's file for the
\* client's assigned channel, which is never empty; getAudioUrlForChannel
\* picks files.left, files.right and files.stereo for the three channels.
C21_AudioUrlOfOwnChannel ==
  /\ \A j \in 1..Len(sent) : sent[j].type = "audio_ready" =>
        LET s == last.sessionId
        IN  /\ s \in DOMAIN sessions
            /\ sessions[s].audioSource # NoTrack
            /\ sent[j].cid \in RosterIds(sessions, s)
            /\ sent[j].track = sessions[s].audioSource
            /\ sent[j].audioUrl =
                 Files(sessions[s].audioSource)[ClientOf(s, sent[j].cid).assignedChannel]
            /\ sent[j].audioUrl # EmptyUrl
            /\ sent[j].audioUrl.track = sessions[s].audioSource
  /\ \A t \in DOMAIN audioDir, ch \in {"left", "right", "stereo"} :
        /\ getAudioUrlForChannel(t, ch) = Files(t)[ch]
        /\ getAudioUrlForChannel(t, ch) # EmptyUrl

\* load_track rebinds the second track in a session of a left and a right
\* client, and each is sent the url of its own file of that track
C21_Witness ==
  /\ last.op = "load_ok"
  /\ last.track = 2
  /\ Len(sent) = 2
  /\ \A j \in 1..2 : sent[j].type = "audio_ready"
  /\ sent[1].audioUrl = [track |-> 2, file |-> "left.mp3"]
  /\ sent[2].audioUrl = [track |-> 2, file |-> "right.mp3"]
  /\ hist.boots = 1

\* C22: a step that handles a ping of a joined connection at server time N
\* writes exactly one message, a pong on that connection with
\* serverTimestamp N and the ping's clientTimestamp; the pinging client's
\* latency becomes N - clientTimestamp, or 0 if that is negative, and nothing
\* else of any session changes.
C22_PingStoresLatencyAndPongs ==
  [][(last'.op = "ping" /\ last'.ok)
       => /\ Len(sent') = 1
          /\ sent'[1].type = "pong"
          /\ sent'[1].ts2 = 2 * now
          /\ conn[sent'[1].ws].ctx.sessionId = last'.sessionId
          /\ LET ct == sent'[1].clientTimestamp
                 cid == conn[sent'[1].ws].ctx.clientId
                 expected == IF now - ct < 0 THEN 0 ELSE now - ct
             IN  /\ DOMAIN sessions' = DOMAIN sessions
                 /\ \A s \in DOMAIN sessions :
                       /\ Len(sessions'[s].clients) = Len(sessions[s].clients)
                       /\ [sessions'[s] EXCEPT !.clients = <<>>]
                            = [sessions[s] EXCEPT !.clients = <<>>]
                       /\ \A i \in 1..Len(sessions[s].clients) :
                             sessions'[s].clients[i] =
                               IF s = last'.sessionId /\ sessions[s].clients[i].id = cid
                               THEN [sessions[s].clients[i] EXCEPT !.latency = expected]
                               ELSE sessions[s].clients[i]]_vars

\* of two clients with different stored latencies one pings with a clock
\* that runs ahead of the server's, and its latency is stored as 0
C22_Witness ==
  /\ last.op = "ping"
  /\ last.ok
  /\ Len(sent) = 1
  /\ sent[1].type = "pong"
  /\ sent[1].clientTimestamp > now
  /\ last.sessionId \in DOMAIN sessions
  /\ Len(Roster(last.sessionId)) = 2
  /\ \E i, j \in 1..2 :
        /\ Roster(last.sessionId)[i].ws = sent[1].ws
        /\ Roster(last.sessionId)[i].latency = 0
        /\ Roster(last.sessionId)[j].latency > 0

\* the offsets of the stored samples of device w, in half-milliseconds
Offsets(w) ==
  [i \in 1..Len(cli[w].latencySamples) |-> cli[w].latencySamples[i].offset2]

\* m is a median of the sequence q: a member with at most half of the
\* members below it and at most half above it
IsMedian(m, q) ==
  /\ \E i \in 1..Len(q) : q[i] = m
  /\ 2 * Cardinality({i \in 1..Len(q) : q[i] < m}) <= Len(q)
  /\ 2 * Cardinality({i \in 1..Len(q) : q[i] > m}) <= Len(q)

\* C23: a step in which a device handles a pong leaves it with the new
\* sample appended to the samples it had, without the oldest one if it had
\* five, so with at most five, and with a clock offset that is a median of
\* the stored offsets; with the offsets 10, 10, 1000, 10, 10 ms stored the
\* clock offset is 10 ms.
C23_MedianOfLastFive ==
  [][\A w \in 1..PlayConns :
       cli'[w] # cli[w] =>
         LET old == cli[w].latencySamples
             new == cli'[w].latencySamples
         IN  /\ Len(new) = (IF Len(old) = 5 THEN 5 ELSE Len(old) + 1)
             /\ SubSeq(new, 1, Len(new) - 1)
                  = (IF Len(old) = 5 THEN Tail(old) ELSE old)
             /\ IsMedian(cli'[w].clockOffset2, Offsets(w)')
             /\ Offsets(w)' = <<20, 20, 2000, 20, 20>> => cli'[w].clockOffset2 = 20
    ]_vars

\* device 1 holds the offsets 10, 10, 1000, 10, 10 ms and uses 10 ms
C23_Witness ==
  /\ Offsets(1) = <<20, 20, 2000, 20, 20>>
  /\ cli[1].clockOffset2 = 20

\* the transition table of C24 as triples (state, event, next state), and
\* the states and events it is checked over (SEEK is no event of the machine)
StatusTable ==
  {<<"null", "LOAD", "loading">>,
   <<"loading", "LOAD", "loading">>, <<"loading", "AUTO_READY", "ready">>,
   <<"loading", "ERROR", "null">>,
   <<"ready", "LOAD", "loading">>, <<"ready", "PLAY", "playing">>,
   <<"playing", "LOAD", "loading">>, <<"playing", "PAUSE", "paused">>,
   <<"paused", "LOAD", "loading">>, <<"paused", "PLAY", "playing">>}
StatusStates == {"null", "loading", "ready", "playing", "paused"}
StatusEvents == {"LOAD", "AUTO_READY", "ERROR", "PLAY", "PAUSE", "SEEK"}

\* C24: StatusMachine.send follows the table: a pair in the table is accepted,
\* moves to the table's next state and notifies the display with that state
\* and its label; any other pair is refused and leaves state and display
\* alone.  Every change of a device's status is a transition of the table
\* and is shown on its display.
C24_StatusTable ==
  /\ \A st \in StatusStates, ev \in StatusEvents :
        LET c == [NewClient EXCEPT !.status = st]
        IN  IF \E t \in StatusStates : <<st, ev, t>> \in StatusTable
            THEN /\ StatusAccepts(st, ev)
                 /\ <<st, ev, StatusSend(st, ev)>> \in StatusTable
                 /\ StatusDisplay(c, ev).state = StatusSend(st, ev)
                 /\ StatusDisplay(c, ev).label
                      = (IF StatusSend(st, ev) = "null" THEN ""
                         ELSE IF StatusSend(st, ev) = "loading" THEN "Loading"
                         ELSE IF StatusSend(st, ev) = "ready" THEN "Ready"
                         ELSE IF StatusSend(st, ev) = "playing" THEN "Playing"
                         ELSE "Paused")
            ELSE /\ ~StatusAccepts(st, ev)
                 /\ StatusSend(st, ev) = st
                 /\ StatusDisplay(c, ev) = c.display
  /\ \A w \in Conns :
        /\ cli[w].status \in StatusStates \cup {"none"}
        /\ cli[w].display.state \in {"none", cli[w].status}
        /\ cli[w].status \in {"ready", "playing", "paused"} =>
              cli[w].display.state = cli[w].status

\* a device went through loading, ready and playing and shows Paused
C24_Witness ==
  /\ cli[1].status = "paused"
  /\ cli[1].display = [state |-> "paused", label |-> "Paused"]
  /\ cli[2].status = "null"
  /\ cli[2].display.state = "none"

\* C25: a step in which a device's engine takes up a new schedule (playAt
\* on a loaded engine) leaves it playing from fromTime F with the start at
\* backend time now + max(0, T - localNow), T being the scheduled local
\* time, so at backend time now when T has passed, and with the anchor
\* start - F; while the engine plays, getCurrentTime is backend now - anchor.
\* Times are in half-milliseconds, F in seconds.
C25_PlayAtSchedule ==
  [][\A w \in 1..PlayConns :
       /\ (cli'[w].isPlaying
             /\ (~cli[w].isPlaying \/ cli'[w].when2 # cli[w].when2
                    \/ cli'[w].fromTime # cli[w].fromTime)) =>
             LET T2 == cli'[w].scheduled2
                 F == cli'[w].fromTime
                 start2 == IF T2 > 2 * LocalNow(w)
                           THEN 2 * CtxNow(w) + (T2 - 2 * LocalNow(w))
                           ELSE 2 * CtxNow(w)
             IN  /\ cli[w].audioBuffer
                 /\ cli'[w].when2 = start2
                 /\ cli'[w].startTime2 = start2 - 2000 * F
       /\ cli'[w].isPlaying =>
             getCurrentTime2(cli'[w], CtxNow(w)')
               = 2 * CtxNow(w)' - (cli'[w].when2 - 2000 * cli'[w].fromTime)
    ]_vars

\* device 2 was told to start at second 30 at a local time that had passed:
\* it started at once, 20 ms ago, and is now 20 ms past second 30
C25_Witness ==
  /\ cli[2].isPlaying
  /\ cli[2].fromTime = 30
  /\ cli[2].scheduled2 < 2 * LocalNow(2)
  /\ cli[2].when2 = 2 * CtxNow(2) - 40
  /\ cli[2].when2 > cli[2].scheduled2 - 2 * CtxCreated[2]
  /\ getCurrentTime2(cli[2], CtxNow(2)) = 60040

\* C26: right after a volume_request{channel, volume} of a joined connection
\* is handled, every client of its session with an open connection, the
\* requester included, has been written exactly one volume_change with that
\* channel and that volume.
C26_VolumeFanOut ==
  (last.op = "volume_request" /\ last.ok /\ last.sessionId \in DOMAIN sessions) =>
    \A i \in 1..Len(Roster(last.sessionId)) :
      IsOpen(Roster(last.sessionId)[i].ws) =>
        LET ms == SelectSeq(sent, LAMBDA m : /\ m.type = "volume_change"
                                             /\ m.ws = Roster(last.sessionId)[i].ws)
        IN  /\ Len(ms) = 1
            /\ ms[1].channel = last.channel
            /\ ms[1].volume = last.volume

\* C27: when the ingestion of a submitter that has disconnected succeeds,
\* the track is bound to the session the link was submitted in and is in
\* the persisted document under that session id (so that a later joiner of
\* the session id is sent audio_ready for it).
C27_IngestionOutlivesSubmitter ==
  (last.op = "submit_ok" /\ ~IsOpen(last.ws)) =>
    /\ last.sessionId \in DOMAIN sessions
    /\ sessions[last.sessionId].audioSource = last.track
    /\ last.sessionId \in DOMAIN persisted
    /\ persisted[last.sessionId].audioSource = last.track

\* the Client records, over all sessions, that hold connection w
RecordsOf(w) ==
  {<<s, i>> \in SessionIds \X (1..MaxConns + RosterClients) :
     /\ s \in DOMAIN sessions
     /\ i <= Len(sessions[s].clients)
     /\ sessions[s].clients[i].ws = w}

\* C28: no connection is held by more than one Client record, and a
\* connection whose close handler has run is held by none.
C28_OneRecordPerConnection ==
  \A w \in Conns :
    /\ Cardinality(RecordsOf(w)) <= 1
    /\ conn[w].state = "closed" => RecordsOf(w) = {}


\* C29: a broadcast is best effort. In the step that fans a client_list or an
\* audio_loading message out to a session, every roster entry whose socket is
\* open gets exactly one copy, whatever the state of the entries before it;
\* an entry whose socket is not open gets none, and no error is sent.
BroadcastTypes == {"client_list", "audio_loading"}

Broadcast(T) == \E k \in 1..Len(sent) : sent[k].type = T

MessageOps ==
  {"join_session", "submit_link", "load_track", "ready", "play_request",
   "pause_request", "seek_request", "ping"}

Suspended(w) == \E i \in 1..Len(pending) : pending[i].ws = w

C30_SerialPerConnection ==
  [][(last' # last /\ last'.op \in MessageOps) => ~Suspended(last'.ws)]_vars


\* C31: an ingestion in flight does not hold back the other connections of
\* its session. While a submit_link of session s is suspended, every other
\* open connection of s can have a join_session, ready, play_request,
\* pause_request, seek_request or ping handled at once, and the step that
\* handles it leaves the ingestion suspended.
Ingesting(s, w) ==
  \E i \in 1..Len(pending) :
    /\ pending[i].kind \in {"submit", "transcode"}
    /\ pending[i].sessionId = s /\ pending[i].ws # w

C31_ResponsiveDuringIngestion ==
  \A w \in 1..PlayConns :
    (IsOpen(w) /\ conn[w].ctx # NoCtx /\ Ingesting(conn[w].ctx.sessionId, w)) =>
      /\ ENABLED (JoinStart(w, conn[w].ctx.sessionId) /\ UNCHANGED cvars)
      /\ ENABLED (Ready(w) /\ UNCHANGED cvars)
      /\ ENABLED (PlayRequest(w) /\ UNCHANGED cvars)
      /\ ENABLED (PauseRequest(w) /\ UNCHANGED cvars)
      /\ ENABLED (SeekRequest(w, 0) /\ UNCHANGED cvars)
      /\ ENABLED (Ping(w, now) /\ UNCHANGED cvars)

\* a pause_request was handled and broadcast while another connection's
\* ingestion for the same session was still suspended
C31_Witness ==
  /\ last.op = "pause_request" /\ last.ok /\ sent # <<>>
  /\ \E i \in 1..Len(pending) :
       /\ pending[i].kind \in {"submit", "transcode"}
       /\ pending[i].sessionId = last.sessionId
       /\ \E k \in 1..Len(sent) : sent[k].ws # pending[i].ws


(* ---------------- persistence: sessions.json found at start ---------------- *)
\* the documents the server may find on disk when it is constructed: for each
\* session id no entry, an entry without audioSource, or an entry with a track
OldStamp == 400
OldEntries ==
  {[createdAt |-> OldStamp, audioSource |-> t] : t \in {NoTrack, 1}}
OldDocs ==
  UNION {[D -> OldEntries] : D \in SUBSET SessionIds}

InitSave ==
  /\ now = StartTime
  /\ persisted \in OldDocs
  /\ sessions = loadState(persisted)
  /\ audioDir = EmptyMap
  /\ nextClientId = 1
  /\ nextTrack = 2
  /\ conn = [w \in Conns |-> [state |-> "open", ctx |-> NoCtx]]
  /\ pending = <<>>
  /\ timers = {}
  /\ sent = <<>>
  /\ last = Op("init", 0, 0, TRUE)
  /\ lastDeparture = [s \in SessionIds |-> -1]
  /\ readyHandled = {}
  /\ hist = [lastBound |-> [s \in SessionIds |-> NoTrack], boots |-> 0]
  /\ net = [w \in Conns |-> <<>>]
  /\ cli = [w \in Conns |-> NewClient]
  /\ playSeq = 0

NextSave ==
  \/ \E w \in 1..SaveConns, s \in SessionIds :
       /\ conn[w].ctx = NoCtx /\ Room(MaxPending)
       /\ JoinStart(w, s) /\ UNCHANGED cvars
  \/ \E i \in 1..Len(pending) : JoinFinish(i) /\ UNCHANGED cvars
  \/ \E w \in 1..SaveConns, u \in {x \in Urls : isYouTubeUrl(x)} :
       /\ Room(MaxPending) /\ CanSubmit(u, SaveTracks)
       /\ SubmitStart(w, u) /\ UNCHANGED cvars
  \/ \E i \in 1..Len(pending) : GetStreamUrl(i) /\ UNCHANGED cvars
  \/ \E i \in 1..Len(pending) : SubmitResolve(i) /\ UNCHANGED cvars
  \/ \E i \in 1..Len(pending) : SubmitList(i) /\ UNCHANGED cvars
  \/ \E w \in 1..SaveConns, t \in 1..SaveTracks :
       Room(MaxPending) /\ LoadStart(w, t) /\ UNCHANGED cvars
  \/ \E i \in 1..Len(pending) : LoadFinish(i) /\ UNCHANGED cvars
  \/ \E w \in 1..SaveConns : Ready(w) /\ UNCHANGED cvars
  \/ \E w \in 1..SaveConns : PlayRequest(w) /\ UNCHANGED cvars
  \/ \E w \in 1..SaveConns : PauseRequest(w) /\ UNCHANGED cvars
  \/ \E w \in 1..SaveConns, t \in SeekTargets : SeekRequest(w, t) /\ UNCHANGED cvars
  \/ \E w \in 1..SaveConns : Ping(w, now - 20) /\ UNCHANGED cvars

SpecSave == InitSave /\ [][NextSave]_vars

\* C32: a persistence write merges. The step that binds a track (the only
\* caller of saveState) keeps every on-disk entry whose session is not in
\* memory, writes {createdAt, audioSource} under the id of every in-memory
\* session that has a track, and adds nothing else; no entry ever holds
\* clients or playbackState; ready, play, pause, seek and ping leave the
\* document as it was.
BindOps == {"submit_ok", "load_ok"}
NoWriteOps == {"ready", "play_request", "pause_request", "seek_request", "ping"}
Tracked(ss) == {x \in DOMAIN ss : ss[x].audioSource # NoTrack}

C32_WriteMerges ==
  [][/\ persisted' # persisted => (last'.op \in BindOps /\ last'.ok)
     /\ last'.op \in NoWriteOps => persisted' = persisted
     /\ (last'.op \in BindOps /\ last'.ok) =>
          /\ DOMAIN persisted' = DOMAIN persisted \cup Tracked(sessions')
          /\ \A x \in DOMAIN persisted \ DOMAIN sessions' :
                persisted'[x] = persisted[x]
          /\ \A x \in Tracked(sessions') :
                persisted'[x] = [createdAt |-> sessions'[x].createdAt,
                                 audioSource |-> sessions'[x].audioSource]
     /\ \A x \in DOMAIN persisted' :
          DOMAIN persisted'[x] = {"createdAt", "audioSource"}]_vars

\* a track was bound and written while the document held an entry of a
\* session that is not in memory, and that entry is still there
C32_Witness ==
  /\ last.op \in BindOps /\ last.ok
  /\ last.sessionId \in DOMAIN persisted
  /\ persisted[last.sessionId].audioSource = last.track
  /\ \E x \in DOMAIN persisted : x \notin DOMAIN sessions


\* C33: metadata.json is written only after the transcoder has closed with
\* code 0, and nothing is written to the channel files after it. A track is
\* enumerated, findable by load_track and named in a track_list only if its
\* ingestion has completed; a running or failed ingestion is never listed.
Completed(t) ==
  /\ audioDir[t].ffmpeg = "done"
  /\ audioDir[t].left = audioDir[t].right
  /\ audioDir[t].mtime <= audioDir[t].createdAt

C33_ListedOnlyWhenCompleted ==
  /\ \A t \in DOMAIN audioDir :
       /\ audioDir[t].metadata # "none" => Completed(t)
       /\ HasTrack(listAllAudio(audioDir), t) => Completed(t)
  /\ \A k \in 1..Len(ListSent) :
       \A i \in 1..Len(ListSent[k].tracks) :
         /\ ListSent[k].tracks[i] \in DOMAIN audioDir
         /\ Completed(ListSent[k].tracks[i])

\* a track list was sent while the directory of a failed ingestion, with
\* part of both channel files in it, was under the audio root
C33_Witness ==
  /\ Len(ListSent) = 1
  /\ \E t \in DOMAIN audioDir :
       /\ audioDir[t].ffmpeg = "failed" /\ audioDir[t].left > 0
       /\ \A i \in 1..Len(ListSent[1].tracks) : ListSent[1].tracks[i] # t


\* C34 (as stated): the currentTime of a session decreases only in the step
\* that handles a seek_request.
C34_MonotonicExceptSeek ==
  [][\A s \in DOMAIN sessions \cap DOMAIN sessions' :
       sessions'[s].playbackState.currentTime < sessions[s].playbackState.currentTime
         => last'.op = "seek_request"]_vars

\* C34 (amended): the currentTime of a session changes only in the step that
\* handles a seek_request, which sets it to the target, and in the step that
\* binds a track, which sets it to 0; no other handler moves it.
C34_MovesOnlyOnSeekOrBind ==
  [][\A s \in DOMAIN sessions \cap DOMAIN sessions' :
       /\ sessions'[s].playbackState.currentTime # sessions[s].playbackState.currentTime
            => \/ last'.op = "seek_request"
               \/ last'.op \in BindOps /\ last'.sessionId = s
       /\ (last'.op \in BindOps /\ last'.ok /\ last'.sessionId = s)
            => sessions'[s].playbackState.currentTime = 0]_vars

\* a track was bound to a session whose currentTime a seek had moved to 30
C34_Witness ==
  /\ last.op \in BindOps /\ last.ok /\ last.prevTime = 30
  /\ sessions[last.sessionId].playbackState.currentTime = 0


\* C35: a session that is playing has a track. isPlaying implies a bound
\* audioSource in every state; a play_request is carried out only in a
\* session that has a track, and otherwise neither sends nor changes
\* anything; a session that has a track stays in memory with a track.
C35_PlayingHasTrack ==
  /\ [](\A s \in DOMAIN sessions :
          sessions[s].playbackState.isPlaying => sessions[s].audioSource # NoTrack)
  /\ [][/\ last'.op = "play_request" =>
            IF last'.ok
            THEN /\ last'.sessionId \in DOMAIN sessions
                 /\ sessions[last'.sessionId].audioSource # NoTrack
            ELSE sent' = <<>> /\ sessions' = sessions
        /\ \A s \in DOMAIN sessions :
             sessions[s].audioSource # NoTrack =>
               s \in DOMAIN sessions' /\ sessions'[s].audioSource # NoTrack]_vars

\* a play_request was dropped while every connection that sends one was a
\* client of a session without a track
C35_Witness ==
  /\ last.op = "play_request" /\ ~last.ok /\ sent = <<>>
  /\ \E s \in DOMAIN sessions :
       /\ sessions[s].audioSource = NoTrack
       /\ ~sessions[s].playbackState.isPlaying
       /\ \A w \in 1..PlayConns : IsOpen(w) /\ conn[w].ctx.sessionId = s


(* ---------------- pause and resume, server and clients ---------------- *)
NextResume ==
  \/ \E w \in 1..ResumeConns :
       /\ conn[w].ctx = NoCtx /\ Room(MaxPending) /\ NetRoom
       /\ JoinStart(w, 1) /\ UNCHANGED <<cli, playSeq>> /\ Deliver
  \/ \E i \in 1..Len(pending) :
       NetRoom /\ JoinFinish(i) /\ UNCHANGED <<cli, playSeq>> /\ Deliver
  \/ \E w \in 1..ResumeConns, u \in {x \in Urls : isYouTubeUrl(x)} :
       /\ Room(MaxPending) /\ NetRoom /\ CanSubmit(u, MaxTracks)
       /\ SubmitStart(w, u) /\ UNCHANGED <<cli, playSeq>> /\ Deliver
  \/ \E i \in 1..Len(pending) : GetStreamUrl(i) /\ UNCHANGED cvars
  \/ \E i \in 1..Len(pending) :
       NetRoom /\ SubmitResolve(i) /\ UNCHANGED <<cli, playSeq>> /\ Deliver
  \/ \E i \in 1..Len(pending) :
       NetRoom /\ SubmitList(i) /\ UNCHANGED <<cli, playSeq>> /\ Deliver
  \/ \E w \in 1..ResumeConns :
       /\ playSeq < ResumePlays /\ NetRoom
       /\ PlayRequest(w)
       /\ playSeq' = IF last'.ok THEN playSeq + 1 ELSE playSeq
       /\ Deliver /\ UNCHANGED cli
  \/ \E w \in 1..ResumeConns :
       /\ NetRoom /\ \E v \in Conns : cli[v].isPlaying
       /\ PauseRequest(w) /\ UNCHANGED <<cli, playSeq>> /\ Deliver
  \/ \E w \in 1..ResumeConns, loaded \in BOOLEAN : ClientRecv(w, loaded)
  \/ /\ now < StartTime + ResumeTicks * ResumeTickMs
     /\ Tick(ResumeTickMs) /\ UNCHANGED cvars

SpecResume == Init /\ [][NextResume]_vars

\* C36: a play that follows a pause resumes where the pause stopped. When a
\* client whose engine is paused with a track loaded handles a play message,
\* the offset it starts from is the position its engine had reached when it
\* was paused (0 when it was paused before the scheduled start).
C36_ResumeFromPause ==
  [][\A w \in 1..ResumeConns :
       (cli[w].audioBuffer /\ ~cli[w].isPlaying /\ cli'[w].isPlaying)
         => 2000 * cli'[w].fromTime = Max(0, cli[w].pauseTime2)]_vars


(* ---------------- ready messages on their way to the server ---------------- *)
\* the oldest ready that client w sent (wsClient.sendReady() after loadAudio)
\* reaches the server and is handled by case 'ready'
ReadyArrives(w) ==
  /\ cli[w].readyOut # <<>>
  /\ Ready(w)
  /\ cli' = [cli EXCEPT ![w].readyOut = Tail(@)]
  /\ UNCHANGED playSeq
  /\ Deliver

NextStale ==
  \/ \E w \in 1..PlayConns :
       /\ conn[w].ctx = NoCtx /\ Room(MaxPending) /\ NetRoom
       /\ JoinStart(w, 1) /\ UNCHANGED <<cli, playSeq>> /\ Deliver
  \/ \E i \in 1..Len(pending) :
       NetRoom /\ JoinFinish(i) /\ UNCHANGED <<cli, playSeq>> /\ Deliver
  \/ \E w \in 1..PlayConns, u \in {x \in Urls : isYouTubeUrl(x)} :
       /\ Room(MaxPending) /\ NetRoom /\ CanSubmit(u, StaleTracks)
       /\ SubmitStart(w, u) /\ UNCHANGED <<cli, playSeq>> /\ Deliver
  \/ \E i \in 1..Len(pending) : GetStreamUrl(i) /\ UNCHANGED cvars
  \/ \E i \in 1..Len(pending) :
       NetRoom /\ SubmitResolve(i) /\ UNCHANGED <<cli, playSeq>> /\ Deliver
  \/ \E i \in 1..Len(pending) :
       NetRoom /\ SubmitList(i) /\ UNCHANGED <<cli, playSeq>> /\ Deliver
  \/ \E w \in 1..PlayConns, loaded \in BOOLEAN : ClientRecv(w, loaded)
  \/ \E w \in 1..PlayConns : NetRoom /\ ReadyArrives(w)
  \/ \E w \in 1..PlayConns :
       /\ playSeq < SyncPlays /\ NetRoom
       /\ PlayRequest(w)
       /\ playSeq' = IF last'.ok THEN playSeq + 1 ELSE playSeq
       /\ Deliver /\ UNCHANGED cli

SpecStale == Init /\ [][NextStale]_vars

\* C37: a client is marked ready only for the track that is bound. Every
\* roster entry whose isReady flag is set belongs to a client whose loaded
\* buffer is the session's current audioSource.
C37_ReadyMeansCurrentTrackLoaded ==
  \A s \in DOMAIN sessions :
    \A i \in 1..Len(Roster(s)) :
      Roster(s)[i].isReady =>
        /\ sessions[s].audioSource # NoTrack
        /\ cli[Roster(s)[i].ws].loaded = sessions[s].audioSource


\* C38: the clients' view of the roster is up to date when the wire is quiet.
\* When no message is in flight in either direction and no handler is
\* suspended, the client_list that each connected client received last
\* equals the server's list of its session, ready flags included.
Quiet ==
  /\ pending = <<>>
  /\ \A w \in Conns : net[w] = <<>> /\ cli[w].readyOut = <<>>

C38_ClientListUpToDate ==
  Quiet =>
    \A w \in 1..PlayConns :
      (IsOpen(w) /\ conn[w].ctx # NoCtx) =>
        cli[w].clientList = getClientList(sessions, conn[w].ctx.sessionId)


\* C39: binding a track stops the clients. In the step in which a client
\* handles the audio_ready of the track that is bound, while the server's
\* isPlaying is false (no play since the binding), its engine is left not
\* playing.
C39_StoppedAfterRebind ==
  [][\A w \in 1..PlayConns :
       LET s == conn[w].ctx.sessionId
       IN  (/\ net[w] # <<>> /\ net'[w] = Tail(net[w])
            /\ Head(net[w]).type = "audio_ready"
            /\ s \in DOMAIN sessions
            /\ Head(net[w]).audioUrl.track = sessions[s].audioSource
            /\ ~sessions[s].playbackState.isPlaying)
             => ~cli'[w].isPlaying]_vars


\* C40: a client whose audio engine is playing shows the playing status: its
\* StatusMachine is in state playing.
C40_PlayingShowsPlaying ==
  \A w \in 1..PlayConns : cli[w].isPlaying => cli[w].status = "playing"

====
